---- MODULE Spec2Model ----
(***************************************************************************)
(* clipq: the clipboard-monitoring daemon (src/daemon.rs), its history     *)
(* store (src/database.rs), the clipboard accessor (src/clipboard.rs) and  *)
(* the foreground commands of src/main.rs that write to the store.         *)
(*                                                                         *)
(* Strings are sequences of one-character strings, so that str::trim and   *)
(* raw string comparison are computed rather than assumed.  Option<T> is   *)
(* a sequence of length 0 (None) or 1 (Some).                              *)
(***************************************************************************)
EXTENDS Naturals, Integers, Sequences, FiniteSets, TLC

VARIABLES
    clips,          \* table clips, in row (insertion) order
    tags,           \* table tags: set of [id, name]
    tag_seq,        \* AUTOINCREMENT counter of table tags
    clip_tags,      \* table clip_tags: set of <<clip_id, tag_id>>
    fk,             \* whether the SQLite build enforces FOREIGN KEY clauses
    next_uuid,      \* source of fresh Uuid::new_v4 values
    now,            \* Utc::now().timestamp(), in seconds
    os_clipboard,   \* the OS clipboard: None (no text) or Some(text)
    pc,             \* Monitor Loop position: "sleep", "add", "trim"
    last_content,   \* Monitor Loop local last_content
    content,        \* Monitor Loop local content of the current tick
    fg,             \* foreground `add` between set_text and add_clip
    fired,          \* log of the trigger_plugins calls of the Monitor Loop
    plugins,        \* PluginManager.plugins: handler name -> PluginConfig
    guards,         \* the tokio Mutex guards the Monitor Loop task holds
    config,         \* Daemon.config, the Config loaded at startup
    accessor,       \* ClipboardManager.last_content of a foreground accessor
    file,           \* the file export, import, backup and restore work on
    writer,         \* a foreground writer between two of its statements
    ticks,          \* history: one record per Monitor Loop tick
    fg_count,       \* history: number of foreground commands started
    trace,          \* history: whether ticks records what each tick did
    last_op         \* history: the last store operation and what it saw

vars == <<clips, tags, tag_seq, clip_tags, fk, next_uuid, now, os_clipboard,
          pc, last_content, content, fg, fired, ticks, fg_count, trace, plugins,
          guards, config, accessor, file, writer, last_op>>

----------------------------------------------------------------------------
(* Bounds of the model *)

MaxClips == 2
MaxTicks == 3
MaxTime == 1
MaxRows == 3
MaxFg == 1
MaxStamp == 3
MaxInserts == 3

----------------------------------------------------------------------------
(* Values *)

None == <<>>
Some(x) == <<x>>

Whitespace == {" ", "\n"}

\* clipboard texts the environment presents
ClipValues == {<<" ">>, <<"a">>, <<"b">>}

\* texts given to the foreground `add` command
FgTexts == {<<"a">>}

TagNames == {"x", "y"}

RECURSIVE TrimStart(_)
TrimStart(s) ==
    IF s = <<>> THEN s
    ELSE IF Head(s) \in Whitespace THEN TrimStart(Tail(s)) ELSE s

RECURSIVE TrimEnd(_)
TrimEnd(s) ==
    IF s = <<>> THEN s
    ELSE IF s[Len(s)] \in Whitespace THEN TrimEnd(SubSeq(s, 1, Len(s) - 1)) ELSE s

\* str::trim
Trim(s) == TrimEnd(TrimStart(s))

\* content.trim().is_empty()
IsBlank(s) == Len(Trim(s)) = 0

Min(a, b) == IF a <= b THEN a ELSE b

Range(s) == {s[i] : i \in 1..Len(s)}

----------------------------------------------------------------------------
(* History Store: src/database.rs *)

Ids(rows) == {rows[i].id : i \in 1..Len(rows)}

\* an insert that numbers the entry by the size of the table
AddClipRowCounted(rows, id, c, clip_type, t) ==
    Append(rows, [id |-> Len(rows) + 1, content |-> c, clip_type |-> clip_type,
                  created_at |-> t, file_path |-> None])

\* an insert that leaves the table alone when a row holds the content already
AddClipRowUnlessPresent(rows, id, c, clip_type, t) ==
    IF \E i \in 1..Len(rows) : rows[i].content = c THEN rows
    ELSE Append(rows, [id |-> id, content |-> c, clip_type |-> clip_type,
                       created_at |-> t, file_path |-> None])

\* an insert that stamps every row of the table with the time of the insert
AddClipRowRestamping(rows, id, c, clip_type, t) ==
    Append([i \in 1..Len(rows) |-> [rows[i] EXCEPT !.created_at = t]],
           [id |-> id, content |-> c, clip_type |-> clip_type,
            created_at |-> t, file_path |-> None])

\* Database::add_clip: INSERT INTO clips (id, content, clip_type, created_at)
AddClipRow(rows, id, c, clip_type, t) ==
    Append(rows, [id |-> id, content |-> c, clip_type |-> clip_type,
                  created_at |-> t, file_path |-> None])

\* the orders of the row positions in S that start with a newest row of S
\* and go on the same way
RECURSIVE NewestFirst(_, _)
NewestFirst(rows, S) ==
    IF S = {} THEN {<<>>}
    ELSE UNION {
            {<<i>> \o rest : rest \in NewestFirst(rows, S \ {i})}
            : i \in {k \in S : \A m \in S : rows[k].created_at >= rows[m].created_at}}

\* a query without its ORDER BY clause: the rows as the table holds them
OrderByRowid(rows) == {[i \in 1..Len(rows) |-> i]}

\* ORDER BY created_at DESC: every order of the row positions in which
\* created_at never increases.  SQL leaves the order of equal keys open.
OrderByCreatedAtDesc(rows) == NewestFirst(rows, 1..Len(rows))

\* Database::get_recent_clips: the possible results of
\* SELECT ... ORDER BY created_at DESC LIMIT ?1
GetRecentClips(rows, limit) ==
    {[i \in 1..Min(limit, Len(rows)) |-> rows[p[i]]] : p \in OrderByCreatedAtDesc(rows)}

\* Database::get_all_clips: SELECT ... ORDER BY created_at DESC
GetAllClips(rows) == GetRecentClips(rows, Len(rows))

\* Database::get_clip_by_id: SELECT ... FROM clips WHERE id = ?1, first row
GetClipById(rows, id) ==
    IF \E i \in 1..Len(rows) : rows[i].id = id
    THEN Some(rows[CHOOSE i \in 1..Len(rows) : rows[i].id = id])
    ELSE None

LowerCase == <<"a", "b", "c", "d", "e">>
UpperCase == <<"A", "B", "C", "D", "E">>

\* the case folding of SQLite's LIKE: ASCII letters compare without case
FoldCase(ch) ==
    IF \E i \in 1..Len(LowerCase) : LowerCase[i] = ch
    THEN UpperCase[CHOOSE i \in 1..Len(LowerCase) : LowerCase[i] = ch]
    ELSE ch

\* str LIKE pat, without ESCAPE: % stands for any run of characters, _ for
\* any one character, every other character for itself in either case
RECURSIVE Like(_, _)
Like(pat, str) ==
    IF pat = <<>> THEN str = <<>>
    ELSE IF Head(pat) = "%"
         THEN Like(Tail(pat), str) \/ (str # <<>> /\ Like(pat, Tail(str)))
    ELSE IF str = <<>> THEN FALSE
    ELSE IF Head(pat) = "_" THEN Like(Tail(pat), Tail(str))
    ELSE FoldCase(Head(pat)) = FoldCase(Head(str)) /\ Like(Tail(pat), Tail(str))

\* format!("%{}%", query)
SearchPattern(query) == <<"%">> \o query \o <<"%">>

\* Database::search_clips: the possible results of SELECT ... WHERE content
\* LIKE ?1 ORDER BY created_at DESC LIMIT ?2
SearchClips(rows, query, limit) ==
    LET matched == SelectSeq(rows, LAMBDA r : Like(SearchPattern(query), r.content))
    IN  GetRecentClips(matched, limit)

\* a trim that ranks the rows by row order instead of created_at
TrimKeepRowOrder(rows, max_clips) ==
    {{rows[i].id : i \in {j \in 1..Len(rows) : j + max_clips > Len(rows)}}}

\* a trim whose LIMIT is one too large
TrimKeepOneMore(rows, max_clips) ==
    {{r.id : r \in Range(s)} : s \in GetRecentClips(rows, max_clips + 1)}

\* the id sets SELECT id FROM clips ORDER BY created_at DESC LIMIT ?1 can give
TrimKeep(rows, max_clips) ==
    {{r.id : r \in Range(s)} : s \in GetRecentClips(rows, max_clips)}

\* a DELETE that removes nothing
DeleteNothing(rows, keep) == rows

\* Database::trim_history: DELETE FROM clips WHERE id NOT IN (keep)
DeleteNotIn(rows, keep) == SelectSeq(rows, LAMBDA r : r.id \in keep)

TrimHistory(rows, max_clips) ==
    {DeleteNotIn(rows, keep) : keep \in TrimKeep(rows, max_clips)}

\* FOREIGN KEY (clip_id) REFERENCES clips(id) ON DELETE CASCADE, database.rs
\* line 93: what deleting rows of clips does to clip_tags.  The clause acts
\* only in a build of SQLite that enforces foreign keys.
CascadeClipTags(ct, before, after, enforce) ==
    IF enforce THEN {a \in ct : a[1] \notin (Ids(before) \ Ids(after))} ELSE ct

\* a plain INSERT INTO tags on a table whose name column is not UNIQUE
InsertTagAlways(tgs, seq, name) ==
    tgs \cup {[id |-> seq + 1, name |-> name]}

\* INSERT OR REPLACE INTO tags (name): a record of that name gives way to a
\* new one
InsertOrReplaceTag(tgs, seq, name) ==
    {t \in tgs : t.name # name} \cup {[id |-> seq + 1, name |-> name]}

\* INSERT OR IGNORE INTO tags (name): name is UNIQUE, id is AUTOINCREMENT
InsertOrIgnoreTag(tgs, seq, name) ==
    IF \E t \in tgs : t.name = name THEN tgs
    ELSE tgs \cup {[id |-> seq + 1, name |-> name]}

\* SELECT id FROM tags WHERE name = ?1
TagIdOf(tgs, name) == (CHOOSE t \in tgs : t.name = name).id

\* INSERT OR IGNORE INTO clip_tags (clip_id, tag_id)
InsertOrIgnoreClipTag(ct, clip_id, tag_id) == ct \cup {<<clip_id, tag_id>>}

\* an untag that forgets the tag in its WHERE clause
RemoveEveryTagFromClip(ct, tgs, clip_id, name) ==
    {a \in ct : a[1] # clip_id}

\* Database::remove_tag_from_clip: DELETE FROM clip_tags WHERE clip_id = ?1
\* AND tag_id = (SELECT id FROM tags WHERE name = ?2)
RemoveTagFromClip(ct, tgs, clip_id, name) ==
    {a \in ct : ~(a[1] = clip_id /\ \E t \in tgs : t.name = name /\ t.id = a[2])}

\* Database::get_clip_tags: SELECT t.name FROM tags t JOIN clip_tags ct
\* ON t.id = ct.tag_id WHERE ct.clip_id = ?1, read as a set of names
GetClipTags(ct, tgs, clip_id) ==
    {t.name : t \in {u \in tgs : <<clip_id, u.id>> \in ct}}

\* Database::get_clips_by_tag: the possible results of SELECT c.* FROM clips c
\* JOIN clip_tags ct ON c.id = ct.clip_id JOIN tags t ON ct.tag_id = t.id
\* WHERE t.name = ?1 ORDER BY c.created_at DESC
GetClipsByTag(rows, ct, tgs, name) ==
    LET joined == SelectSeq(rows, LAMBDA r : name \in GetClipTags(ct, tgs, r.id))
    IN  GetRecentClips(joined, Len(joined))

----------------------------------------------------------------------------
(* Clipboard Accessor: src/clipboard.rs *)

\* ClipboardManager::get_text: Result<Option<String>>
GetTextErr == [ok |-> FALSE, val |-> None]
GetTextOk(v) == [ok |-> TRUE, val |-> v]
GetText(os) == {GetTextErr, GetTextOk(os)}

\* a set_text that remembers the text whether or not the platform took it
SetTextLastAlways(last, text, ok) == Some(text)

\* ClipboardManager::set_text, clipboard.rs lines 29-30: last_content after the
\* call; ok is whether self.clipboard.set_text(text) succeeded
SetTextLast(last, text, ok) == IF ok THEN Some(text) ELSE last

\* ClipboardManager::has_changed, clipboard.rs lines 68-69 and 75: the answer
\* for the outcome r of get_text
HasChangedResult(last, r) == r.ok /\ r.val # None /\ last # r.val

\* ClipboardManager::has_changed, clipboard.rs lines 70-72: last_content after
\* the call
HasChangedLast(last, r) == IF HasChangedResult(last, r) THEN r.val ELSE last

----------------------------------------------------------------------------
(* Event Trigger Hub: src/plugins.rs *)

\* HashMap::new()
NoPlugins == [n \in {} |-> n]

\* enum PluginTrigger
PluginTrigger ==
    {"OnClipAdd", "OnClipSearch", "OnClipPick", "OnDaemonStart", "OnDaemonStop",
     "Manual"}

PluginConfig(name, command, enabled, trigger) ==
    [name |-> name, command |-> command, enabled |-> enabled, trigger |-> trigger]

\* HashMap::insert(plugin.name.clone(), plugin)
AddPlugin(reg, plugin) ==
    [n \in DOMAIN reg \cup {plugin.name} |->
        IF n = plugin.name THEN plugin ELSE reg[n]]

\* PluginManager::load_plugins: the three built-in handlers
LoadPlugins(reg) ==
    AddPlugin(
        AddPlugin(
            AddPlugin(reg, PluginConfig("url_extractor", "python3", TRUE, "OnClipAdd")),
            PluginConfig("code_formatter", "python3", TRUE, "OnClipAdd")),
        PluginConfig("password_generator", "python3", TRUE, "Manual"))

\* what may become of the process of a handler: Command::spawn fails, the
\* write to its stdin fails, it exits with a status other than zero, or it
\* exits with status zero
ProcessOutcomes == {"spawn_failed", "write_failed", "exit_nonzero", "exit_zero"}

\* what the process wrote, as String::from_utf8_lossy returns it
Stdout(name, input) == <<"out", name, input>>
Stderr(name, input) == <<"err", name, input>>

Ok(v) == [ok |-> TRUE, val |-> v]
Err(msg, arg) == [ok |-> FALSE, msg |-> msg, arg |-> arg]

\* PluginManager::execute_plugin: the value returned, when the process of
\* the handler (if one is started) ends as outcome says
ExecutePlugin(reg, plugin_name, input, outcome) ==
    IF plugin_name \notin DOMAIN reg THEN Err("Plugin not found", plugin_name)
    ELSE IF ~reg[plugin_name].enabled THEN Err("Plugin is disabled", plugin_name)
    ELSE IF outcome = "spawn_failed" THEN Err("io::Error", "spawn")
    ELSE IF outcome = "write_failed" THEN Err("io::Error", "write_all")
    ELSE IF outcome = "exit_nonzero"
         THEN Err("Plugin execution failed", Stderr(plugin_name, input))
    ELSE Ok(Stdout(plugin_name, input))

\* whether execute_plugin gets as far as a successful Command::spawn
Spawns(reg, plugin_name, outcome) ==
    /\ plugin_name \in DOMAIN reg
    /\ reg[plugin_name].enabled
    /\ outcome # "spawn_failed"

\* the handlers the loop of trigger_plugins calls execute_plugin for
Triggered(reg, trigger) ==
    {n \in DOMAIN reg :
        /\ reg[n].enabled
        /\ reg[n].trigger = "OnClipAdd"
        /\ trigger = "OnClipAdd"}

\* the orders in which a HashMap may yield the names in S
RECURSIVE Orders(_)
Orders(S) ==
    IF S = {} THEN {<<>>}
    ELSE UNION {{<<n>> \o rest : rest \in Orders(S \ {n})} : n \in S}

\* a loop that returns at the first handler that fails
RECURSIVE CallsUntilFailure(_, _, _, _)
CallsUntilFailure(reg, order, outs, input) ==
    IF order = <<>> THEN <<>>
    ELSE LET r == ExecutePlugin(reg, Head(order), input, outs[Head(order)])
             call == [name |-> Head(order), input |-> input, result |-> r]
         IN  IF r.ok
             THEN <<call>> \o CallsUntilFailure(reg, Tail(order), outs, input)
             ELSE <<call>>

\* PluginManager::trigger_plugins, lines 108-121: the execute_plugin calls made
\* when the map yields the triggered handlers in this order and the process
\* of handler n ends as outs[n] says; an Err is logged and the loop goes on
Calls(reg, order, outs, input) ==
    [i \in 1..Len(order) |->
        [name |-> order[i], input |-> input,
         result |-> ExecutePlugin(reg, order[i], input, outs[order[i]])]]

----------------------------------------------------------------------------
(* Monitor Loop: Daemon::run, src/daemon.rs *)

\* the condition of daemon.rs line 116 with the blank test left out
ShouldStoreNoBlankTest(last, c) == last # Some(c)

\* a test that takes every text that is not blank for a change
ShouldStoreAnyText(last, c) == ~IsBlank(c)

\* daemon.rs line 116
ShouldStore(last, c) == last # Some(c) /\ ~IsBlank(c)

\* a loop that remembers every differing read, blank or not
NewLastAnyRead(last, c) == IF last # Some(c) THEN Some(c) ELSE last

\* daemon.rs lines 116-117
NewLast(last, c) == IF ShouldStore(last, c) THEN Some(c) ELSE last

\* the record of a tick that has just read r
Tick(r, changed) ==
    [read |-> r, changed |-> changed, attempts |-> 0, add |-> "none",
     trim |-> "none"]

\* a tick is counted in ticks always, and described there when trace is set
LogPoll(r, changed) ==
    Append(ticks, IF trace THEN Tick(r, changed) ELSE [untraced |-> TRUE])

LogAdd(outcome) ==
    IF trace
    THEN [ticks EXCEPT ![Len(ticks)].attempts = @ + 1, ![Len(ticks)].add = outcome]
    ELSE ticks

LogTrim(outcome) ==
    IF trace THEN [ticks EXCEPT ![Len(ticks)].trim = outcome] ELSE ticks

\* daemon.rs lines 115-119 and 131: read, compare, remember and lock the store;
\* sleep if no change
Poll ==
    /\ pc = "sleep"
    /\ Len(ticks) < MaxTicks
    /\ \E r \in GetText(os_clipboard) :
        LET isText == r.ok /\ r.val # None
            changed == isText /\ ShouldStore(last_content, r.val[1])
        IN  /\ last_content' = IF isText THEN NewLast(last_content, r.val[1])
                               ELSE last_content
            /\ content' = IF changed THEN r.val ELSE None
            /\ pc' = IF changed THEN "add" ELSE "sleep"
            /\ guards' = IF changed THEN guards \cup {"db"} ELSE guards
            /\ ticks' = LogPoll(r, changed)
    /\ UNCHANGED <<clips, tags, tag_seq, clip_tags, fk, trace, config, accessor,
                   file, writer, plugins, next_uuid, now, os_clipboard, fg,
                   fired, fg_count, last_op>>

\* a loop whose failed insert ends the task (the error propagated with `?`)
MonitorAddExits ==
    /\ pc = "add"
    /\ \/ /\ clips' = AddClipRow(clips, next_uuid, content[1], "text", now)
          /\ next_uuid' = next_uuid + 1
          /\ pc' = "trim"
          /\ content' = content
          /\ ticks' = LogAdd("ok")
          /\ last_op' = [op |-> "monitor_add"]
          /\ guards' = guards
       \/ /\ pc' = "exited"
          /\ content' = None
          /\ ticks' = LogAdd("fail")
          /\ guards' = guards \ {"db"}
          /\ UNCHANGED <<clips, next_uuid, last_op>>
    /\ UNCHANGED <<tags, tag_seq, clip_tags, fk, trace, config, accessor, file, writer,
                   plugins, now, os_clipboard, last_content, fg, fired,
                   fg_count>>

\* a loop that forgets the text it read when the insert of it fails
MonitorAddForgets ==
    /\ pc = "add"
    /\ \/ /\ clips' = AddClipRow(clips, next_uuid, content[1], "text", now)
          /\ next_uuid' = next_uuid + 1
          /\ pc' = "trim"
          /\ content' = content
          /\ ticks' = LogAdd("ok")
          /\ last_op' = [op |-> "monitor_add"]
          /\ guards' = guards
          /\ last_content' = last_content
       \/ /\ pc' = "sleep"
          /\ content' = None
          /\ ticks' = LogAdd("fail")
          /\ guards' = guards \ {"db"}
          /\ last_content' = None
          /\ UNCHANGED <<clips, next_uuid, last_op>>
    /\ UNCHANGED <<tags, tag_seq, clip_tags, fk, trace, config, accessor, file, writer,
                   plugins, now, os_clipboard, fg, fired, fg_count>>

\* a loop that tries a failed insert once more within the tick
MonitorAddRetries ==
    /\ pc = "add"
    /\ \/ /\ clips' = AddClipRow(clips, next_uuid, content[1], "text", now)
          /\ next_uuid' = next_uuid + 1
          /\ pc' = "trim"
          /\ content' = content
          /\ ticks' = LogAdd("ok")
          /\ last_op' = [op |-> "monitor_add"]
          /\ guards' = guards
       \/ /\ pc' = IF ticks[Len(ticks)].attempts = 0 THEN "add" ELSE "sleep"
          /\ content' = IF ticks[Len(ticks)].attempts = 0 THEN content ELSE None
          /\ ticks' = LogAdd("fail")
          /\ guards' = IF ticks[Len(ticks)].attempts = 0 THEN guards
                        ELSE guards \ {"db"}
          /\ UNCHANGED <<clips, next_uuid, last_op>>
    /\ UNCHANGED <<tags, tag_seq, clip_tags, fk, trace, config, accessor, file, writer,
                   plugins, now, os_clipboard, last_content, fg, fired,
                   fg_count>>

\* daemon.rs lines 119-122 and 131: db.add_clip(&content, "text"), which may
\* fail; a failure is logged and the tick ends
MonitorAdd ==
    /\ pc = "add"
    /\ \/ /\ clips' = AddClipRow(clips, next_uuid, content[1], "text", now)
          /\ next_uuid' = next_uuid + 1
          /\ pc' = "trim"
          /\ content' = content
          /\ ticks' = LogAdd("ok")
          /\ last_op' = [op |-> "monitor_add"]
          /\ guards' = guards
       \/ /\ pc' = "sleep"
          /\ content' = None
          /\ ticks' = LogAdd("fail")
          /\ guards' = guards \ {"db"}
          /\ UNCHANGED <<clips, next_uuid, last_op>>
    /\ UNCHANGED <<tags, tag_seq, clip_tags, fk, trace, config, accessor, file, writer,
                   plugins, now, os_clipboard, last_content, fg, fired,
                   fg_count>>

\* daemon.rs lines 123-127 and 131: db.trim_history(max_clips), which may
\* fail; either way the tick ends
MonitorTrim ==
    /\ pc = "trim"
    /\ \/ /\ clips' \in TrimHistory(clips, MaxClips)
          /\ clip_tags' = CascadeClipTags(clip_tags, clips, clips', fk)
          /\ ticks' = LogTrim("ok")
          /\ last_op' = [op |-> "monitor_trim", before |-> Len(clips)]
       \/ /\ ticks' = LogTrim("fail")
          /\ UNCHANGED <<clips, clip_tags, last_op>>
    /\ pc' = "sleep"
    /\ content' = None
    /\ guards' = guards \ {"db"}
    /\ UNCHANGED <<tags, tag_seq, fk, trace, config, accessor, file, writer, plugins,
                   next_uuid, now, os_clipboard, last_content, fg, fired,
                   fg_count>>

Monitor == Poll \/ MonitorAdd \/ MonitorTrim

----------------------------------------------------------------------------
(* Environment and foreground commands *)

\* the user copies something, or something that is not text
UserCopy ==
    /\ \E v \in {None} \cup {Some(c) : c \in ClipValues} :
        /\ v # os_clipboard
        /\ os_clipboard' = v
    /\ UNCHANGED <<clips, tags, tag_seq, clip_tags, fk, trace, guards, config, accessor, file, writer, plugins, next_uuid, now, pc,
                   last_content, content, fg, fired, ticks, fg_count, last_op>>

\* a second passes
ClockTick ==
    /\ now < MaxTime
    /\ now' = now + 1
    /\ UNCHANGED <<clips, tags, tag_seq, clip_tags, fk, trace, guards, config, accessor, file, writer, plugins, next_uuid, os_clipboard,
                   pc, last_content, content, fg, fired, ticks, fg_count, last_op>>

\* a set_text that writes the last-seen value of the Monitor Loop as well,
\* as if the two were one shared value
FgAddSetTextShared ==
    /\ fg = None
    /\ fg_count < MaxFg
    /\ fg_count' = fg_count + 1
    /\ \E text \in FgTexts :
        \/ /\ os_clipboard' = Some(text)
           /\ accessor' = SetTextLast(None, text, TRUE)
           /\ last_content' = accessor'
           /\ fg' = Some(text)
        \/ UNCHANGED <<os_clipboard, accessor, fg, last_content>>
    /\ UNCHANGED <<clips, tags, tag_seq, clip_tags, fk, trace, guards, config, file, writer, plugins, next_uuid, now, pc,
                   content, fired, ticks, last_op>>

\* Commands::Add, main.rs lines 176-180: clipboard.set_text(&text)? on a
\* ClipboardManager of the command's own, which remembers the text written
FgAddSetText ==
    /\ fg = None
    /\ fg_count < MaxFg
    /\ fg_count' = fg_count + 1
    /\ \E text \in FgTexts :
        \/ /\ os_clipboard' = Some(text)
           /\ accessor' = SetTextLast(None, text, TRUE)
           /\ fg' = Some(text)
        \/ UNCHANGED <<os_clipboard, accessor, fg>>
    /\ UNCHANGED <<clips, tags, tag_seq, clip_tags, fk, trace, guards, config, file, writer, plugins, next_uuid, now, pc,
                   last_content, content, fired, ticks, last_op>>

\* Commands::Add, main.rs lines 181-183: db.add_clip(&text, "text")?, after
\* which the command and its ClipboardManager are gone
FgAddClip ==
    /\ fg # None
    /\ fg' = None
    /\ accessor' = None
    /\ \/ /\ Len(clips) < MaxRows
          /\ clips' = AddClipRow(clips, next_uuid, fg[1], "text", now)
          /\ next_uuid' = next_uuid + 1
          /\ last_op' = [op |-> "fg_add"]
       \/ UNCHANGED <<clips, next_uuid, last_op>>
    /\ UNCHANGED <<tags, tag_seq, clip_tags, fk, trace, guards, config, file, writer, plugins, now, os_clipboard, pc,
                   last_content, content, fired, ticks, fg_count>>

\* a pick that writes the last-seen value of the Monitor Loop as well, as if
\* the two were one shared value
FgPickShared ==
    /\ fg = None
    /\ fg_count < MaxFg
    /\ fg_count' = fg_count + 1
    /\ \/ \E limit \in 1..MaxRows :
            \E listed \in GetRecentClips(clips, limit) :
                \E index \in 1..Len(listed) :
                    /\ os_clipboard' = Some(listed[index].content)
                    /\ last_content' = os_clipboard'
                    /\ last_op' = [op |-> "pick", id |-> listed[index].id]
       \/ UNCHANGED <<os_clipboard, last_op, last_content>>
    /\ UNCHANGED <<clips, tags, tag_seq, clip_tags, fk, trace, guards, config, accessor, file, writer,
                   plugins, next_uuid, now, pc, content, fg, fired, ticks>>

\* Commands::Pick, main.rs lines 185-193, with picker::show_picker: the entry
\* chosen from the listing of get_recent_clips(limit) is written to the OS
\* clipboard through a ClipboardManager of the command's own; nothing is
\* written when the listing is empty, nothing is chosen or a call fails
FgPick ==
    /\ fg = None
    /\ fg_count < MaxFg
    /\ fg_count' = fg_count + 1
    /\ \/ \E limit \in 1..MaxRows :
            \E listed \in GetRecentClips(clips, limit) :
                \E index \in 1..Len(listed) :
                    /\ os_clipboard' = Some(listed[index].content)
                    /\ last_op' = [op |-> "pick", id |-> listed[index].id]
       \/ UNCHANGED <<os_clipboard, last_op>>
    /\ UNCHANGED <<clips, tags, tag_seq, clip_tags, fk, trace, guards, config, accessor, file, writer,
                   plugins, next_uuid, now, pc, last_content, content, fg, fired, ticks>>

----------------------------------------------------------------------------
(* The daemon with its environment *)

\* the daemon starts on an empty store.  No tag exists in the behaviours that
\* start here, so clip_tags stays empty whether foreign keys are enforced or
\* not; InitTags draws both settings.
Init ==
    /\ clips = <<>>
    /\ tags = {}
    /\ tag_seq = 0
    /\ clip_tags = {}
    /\ fk = TRUE
    /\ next_uuid = 1
    /\ now = 0
    /\ os_clipboard = None
    /\ pc = "sleep"
    /\ last_content = None
    /\ content = None
    /\ fg = None
    /\ fired = <<>>
    /\ ticks = <<>>
    /\ fg_count = 0
    /\ trace = TRUE
    /\ plugins = NoPlugins
    /\ guards = {"clipboard"}
    /\ config = [max_clips |-> MaxClips]
    /\ accessor = None
    /\ file = None
    /\ writer = None
    /\ last_op = [op |-> "none"]

\* the daemon alone: no foreground command runs
Next ==
    \/ Poll
    \/ MonitorAdd
    \/ MonitorTrim
    \/ UserCopy
    \/ ClockTick

Spec == Init /\ [][Next]_vars

\* the daemon started with a configuration file: Config::load gives
\* config.max_clips, the --max-clips argument (MaxClips) is handed to
\* Daemon::new beside it; the ticks are counted but not described
InitCfg ==
    /\ clips = <<>>
    /\ tags = {}
    /\ tag_seq = 0
    /\ clip_tags = {}
    /\ fk = TRUE
    /\ next_uuid = 1
    /\ now = 0
    /\ os_clipboard = None
    /\ pc = "sleep"
    /\ last_content = None
    /\ content = None
    /\ fg = None
    /\ fired = <<>>
    /\ ticks = <<>>
    /\ fg_count = 0
    /\ trace = FALSE
    /\ plugins = NoPlugins
    /\ guards = {"clipboard"}
    /\ config \in [max_clips : 1..MaxRows]
    /\ accessor = None
    /\ file = None
    /\ writer = None
    /\ last_op = [op |-> "none"]

SpecCfg == InitCfg /\ [][Next]_vars

\* the daemon while foreground `add` commands run in other processes
NextFg ==
    \/ Next
    \/ FgAddSetText
    \/ FgAddClip

\* as Init, with the ticks counted but not described
InitFg ==
    /\ clips = <<>>
    /\ tags = {}
    /\ tag_seq = 0
    /\ clip_tags = {}
    /\ fk = TRUE
    /\ next_uuid = 1
    /\ now = 0
    /\ os_clipboard = None
    /\ pc = "sleep"
    /\ last_content = None
    /\ content = None
    /\ fg = None
    /\ fired = <<>>
    /\ ticks = <<>>
    /\ fg_count = 0
    /\ trace = FALSE
    /\ plugins = NoPlugins
    /\ guards = {"clipboard"}
    /\ config = [max_clips |-> MaxClips]
    /\ accessor = None
    /\ file = None
    /\ writer = None
    /\ last_op = [op |-> "none"]

SpecFg == InitFg /\ [][NextFg]_vars

\* the daemon while foreground `add` and `pick` commands run in other processes
NextPick ==
    \/ NextFg
    \/ FgPick

SpecPick == InitFg /\ [][NextPick]_vars

\* the Monitor Loop is a spawned task that the runtime keeps scheduling and
\* whose sleep of 500 ms ends: its next step is always taken eventually
LiveSpec == Init /\ [][Next]_vars /\ WF_vars(Monitor)

----------------------------------------------------------------------------
(* The store operations on their own: trim and recent on any store *)

LetterOf == <<"a", "b", "c", "d", "e">>

\* the row add_clip wrote for entry id at second t
RowOf(id, t) ==
    [id |-> id, content |-> <<LetterOf[id]>>, clip_type |-> "text",
     created_at |-> t, file_path |-> None]

\* stores of up to MaxRows rows: any row order, any created_at (the wall
\* clock behind Utc::now() may step back between two inserts)
Stores ==
    UNION {
        {[i \in 1..n |-> RowOf(ord[i], st[i])] :
            ord \in {f \in [1..n -> 1..MaxRows] :
                        \A i, j \in 1..n : i # j => f[i] # f[j]},
            st \in [1..n -> 1..MaxStamp]}
        : n \in 0..MaxRows}

InitStore ==
    /\ clips \in Stores
    /\ tags = {}
    /\ tag_seq = 0
    /\ clip_tags = {}
    /\ fk \in BOOLEAN
    /\ next_uuid = MaxRows + 1
    /\ now = MaxStamp
    /\ os_clipboard = None
    /\ pc = "sleep"
    /\ last_content = None
    /\ content = None
    /\ fg = None
    /\ fired = <<>>
    /\ ticks = <<>>
    /\ fg_count = 0
    /\ trace = TRUE
    /\ plugins = NoPlugins
    /\ guards = {"clipboard"}
    /\ config = [max_clips |-> MaxClips]
    /\ accessor = None
    /\ file = None
    /\ writer = None
    /\ last_op = [op |-> "none"]

ReadOps == {"recent", "all", "search"}

\* the texts searched for
Queries == {<<"a">>, <<"A">>, <<"_">>, <<"%">>}

\* Database::trim_history(max_clips)
StoreTrim ==
    /\ last_op.op \notin ReadOps
    /\ \E max_clips \in 0..MaxRows :
        /\ clips' \in TrimHistory(clips, max_clips)
        /\ last_op' = [op |-> "trim", before |-> clips, max |-> max_clips]
    /\ clip_tags' = CascadeClipTags(clip_tags, clips, clips', fk)
    /\ UNCHANGED <<tags, tag_seq, fk, trace, guards, config, accessor, file, writer, plugins, next_uuid, now, os_clipboard, pc,
                   last_content, content, fg, fired, ticks, fg_count>>

\* Database::get_recent_clips(limit)
StoreRecent ==
    /\ last_op.op \notin ReadOps
    /\ \E limit \in 0..(MaxRows + 1) :
        \E r \in GetRecentClips(clips, limit) :
            last_op' = [op |-> "recent", limit |-> limit, result |-> r,
                        prev |-> last_op]
    /\ UNCHANGED <<clips, tags, tag_seq, clip_tags, fk, trace, guards, config, accessor, file, writer, plugins, next_uuid, now,
                   os_clipboard, pc, last_content, content, fg, fired, ticks,
                   fg_count>>

\* Database::get_all_clips()
StoreAll ==
    /\ last_op.op \notin ReadOps
    /\ \E r \in GetAllClips(clips) :
        last_op' = [op |-> "all", result |-> r]
    /\ UNCHANGED <<clips, tags, tag_seq, clip_tags, fk, trace, guards, config, accessor, file, writer, plugins, next_uuid, now,
                   os_clipboard, pc, last_content, content, fg, fired, ticks,
                   fg_count>>

\* Database::search_clips(query, limit)
StoreSearch ==
    /\ last_op.op \notin ReadOps
    /\ \E query \in Queries, limit \in 0..(MaxRows + 1) :
        \E r \in SearchClips(clips, query, limit) :
            last_op' = [op |-> "search", query |-> query, limit |-> limit,
                        result |-> r]
    /\ UNCHANGED <<clips, tags, tag_seq, clip_tags, fk, trace, guards, config, accessor, file, writer, plugins, next_uuid, now,
                   os_clipboard, pc, last_content, content, fg, fired, ticks,
                   fg_count>>

NextStore == StoreTrim \/ StoreRecent \/ StoreAll \/ StoreSearch

SpecStore == InitStore /\ [][NextStore]_vars

----------------------------------------------------------------------------
(* The daemon on a store that is already full *)

\* the daemon started on the store an earlier run left full: max_clips
\* entries, and a last_content that starts at None again
InitRestart ==
    /\ clips = [i \in 1..MaxClips |-> RowOf(i, 0)]
    /\ tags = {}
    /\ tag_seq = 0
    /\ clip_tags = {}
    /\ fk = TRUE
    /\ next_uuid = MaxClips + 1
    /\ now = 0
    /\ os_clipboard = None
    /\ pc = "sleep"
    /\ last_content = None
    /\ content = None
    /\ fg = None
    /\ fired = <<>>
    /\ ticks = <<>>
    /\ fg_count = 0
    /\ trace = TRUE
    /\ plugins = NoPlugins
    /\ guards = {"clipboard"}
    /\ config = [max_clips |-> MaxClips]
    /\ accessor = None
    /\ file = None
    /\ writer = None
    /\ last_op = [op |-> "none"]

SpecRestart == InitRestart /\ [][Next]_vars

----------------------------------------------------------------------------
(* Tagging: Commands::Tag, Commands::Untag and Commands::Clear *)

InitTags ==
    /\ clips = <<RowOf(1, 0), RowOf(2, 0)>>
    /\ tags = {}
    /\ tag_seq = 0
    /\ clip_tags = {}
    /\ fk \in BOOLEAN
    /\ next_uuid = 3
    /\ now = 0
    /\ os_clipboard = None
    /\ pc = "sleep"
    /\ last_content = None
    /\ content = None
    /\ fg = None
    /\ fired = <<>>
    /\ ticks = <<>>
    /\ fg_count = 0
    /\ trace = TRUE
    /\ plugins = NoPlugins
    /\ guards = {"clipboard"}
    /\ config = [max_clips |-> MaxClips]
    /\ accessor = None
    /\ file = None
    /\ writer = None
    /\ last_op = [op |-> "none"]

\* the ids a caller may name: those handed out so far, and one never handed out
ClipIdArgs == 0..(next_uuid - 1)

\* Database::add_tag_to_clip: three statements outside any transaction.  The
\* first or the last may fail on I/O; the last fails when foreign keys are
\* enforced and clip_id names no entry.
AddTagToClip(clip_id, name) ==
    \E io \in {"ok", "fail1", "fail3"} :
        LET tgs == InsertOrIgnoreTag(tags, tag_seq, name)
            pre == GetClipTags(clip_tags, tags, clip_id)
            done == io = "ok" /\ ~(fk /\ clip_id \notin Ids(clips))
        IN  /\ tags' = IF io = "fail1" THEN tags ELSE tgs
            /\ tag_seq' = IF io = "fail1" \/ tgs = tags THEN tag_seq ELSE tag_seq + 1
            /\ clip_tags' = IF done
                            THEN InsertOrIgnoreClipTag(clip_tags, clip_id, TagIdOf(tgs, name))
                            ELSE clip_tags
            /\ last_op' = [op |-> "tag", clip_id |-> clip_id, name |-> name,
                           pre |-> pre, ok |-> done, io |-> io,
                           again |-> /\ last_op.op = "tag"
                                     /\ last_op.ok
                                     /\ last_op.clip_id = clip_id
                                     /\ last_op.name = name]

Tag ==
    /\ \E clip_id \in ClipIdArgs, name \in TagNames : AddTagToClip(clip_id, name)
    /\ UNCHANGED <<clips, fk, trace, guards, config, accessor, file, writer, plugins, next_uuid, now, os_clipboard, pc, last_content,
                   content, fg, fired, ticks, fg_count>>

\* Database::remove_tag_from_clip: one statement, which may fail on I/O
RemoveTag(clip_id, name) ==
    \E ok \in BOOLEAN :
        /\ clip_tags' = IF ok THEN RemoveTagFromClip(clip_tags, tags, clip_id, name)
                        ELSE clip_tags
        /\ last_op' =
            IF last_op.op = "tag" /\ last_op.clip_id = clip_id /\ last_op.name = name
            THEN [op |-> "tag_untag", clip_id |-> clip_id, name |-> name,
                  pre |-> last_op.pre, tag_ok |-> last_op.ok, untag_ok |-> ok,
                  post |-> GetClipTags(clip_tags', tags, clip_id)]
            ELSE [op |-> "untag", clip_id |-> clip_id, name |-> name, ok |-> ok]

Untag ==
    /\ \E clip_id \in ClipIdArgs, name \in TagNames : RemoveTag(clip_id, name)
    /\ UNCHANGED <<clips, tags, tag_seq, fk, trace, guards, config, accessor, file, writer, plugins, next_uuid, now, os_clipboard, pc,
                   last_content, content, fg, fired, ticks, fg_count>>

\* Database::clear_history: DELETE FROM clips
Clear ==
    /\ clips # <<>>
    /\ clips' = <<>>
    /\ clip_tags' = CascadeClipTags(clip_tags, clips, clips', fk)
    /\ last_op' = [op |-> "clear", before |-> clips]
    /\ UNCHANGED <<tags, tag_seq, fk, trace, guards, config, accessor, file, writer, plugins, next_uuid, now, os_clipboard, pc,
                   last_content, content, fg, fired, ticks, fg_count>>

NextTags == Tag \/ Untag \/ Clear

SpecTags == InitTags /\ [][NextTags]_vars

----------------------------------------------------------------------------
(* The entries of the store over its lifetime: insert, trim and clear *)

InitLife ==
    /\ clips = <<>>
    /\ tags = {}
    /\ tag_seq = 0
    /\ clip_tags = {}
    /\ fk \in BOOLEAN
    /\ next_uuid = 1
    /\ now = 0
    /\ os_clipboard = None
    /\ pc = "sleep"
    /\ last_content = None
    /\ content = None
    /\ fg = None
    /\ fired = <<>>
    /\ ticks = <<>>
    /\ fg_count = 0
    /\ trace = TRUE
    /\ plugins = NoPlugins
    /\ guards = {"clipboard"}
    /\ config = [max_clips |-> MaxClips]
    /\ accessor = None
    /\ file = None
    /\ writer = None
    /\ last_op = [op |-> "none"]

\* Database::add_clip(content, "text")
Insert ==
    /\ next_uuid <= MaxInserts
    /\ \E c \in FgTexts :
        clips' = AddClipRow(clips, next_uuid, c, "text", now)
    /\ next_uuid' = next_uuid + 1
    /\ last_op' = [op |-> "insert", before |-> clips]
    /\ UNCHANGED <<tags, tag_seq, clip_tags, fk, trace, guards, config, accessor, file, writer, plugins, now, os_clipboard, pc,
                   last_content, content, fg, fired, ticks, fg_count>>

NextLife ==
    \/ Insert
    \/ StoreTrim
    \/ Clear
    \/ ClockTick

SpecLife == InitLife /\ [][NextLife]_vars

----------------------------------------------------------------------------
(* The Event Trigger Hub on its own: a PluginManager and its callers *)

InitPlugins ==
    /\ clips = <<>>
    /\ tags = {}
    /\ tag_seq = 0
    /\ clip_tags = {}
    /\ fk = TRUE
    /\ next_uuid = 1
    /\ now = 0
    /\ os_clipboard = None
    /\ pc = "sleep"
    /\ last_content = None
    /\ content = None
    /\ fg = None
    /\ fired = <<>>
    /\ ticks = <<>>
    /\ fg_count = 0
    /\ trace = TRUE
    /\ plugins = NoPlugins
    /\ guards = {"clipboard"}
    /\ config = [max_clips |-> MaxClips]
    /\ accessor = None
    /\ file = None
    /\ writer = None
    /\ last_op = [op |-> "none"]

\* handlers a caller registers besides the built-in ones
CustomNames == {"p"}

\* names a caller may ask for
NameArgs == {"url_extractor", "password_generator", "p", "nonexistent"}

nonPluginVars ==
    <<clips, tags, tag_seq, clip_tags, fk, trace, guards, config, accessor, file, writer,
      next_uuid, now, os_clipboard, pc, last_content, content, fg, fired, ticks, fg_count>>

\* PluginManager::load_plugins
Load ==
    /\ plugins' = LoadPlugins(plugins)
    /\ last_op' = [op |-> "load"]
    /\ UNCHANGED nonPluginVars

\* PluginManager::add_plugin
Register ==
    /\ \E name \in CustomNames, enabled \in BOOLEAN, trigger \in PluginTrigger :
        plugins' = AddPlugin(plugins, PluginConfig(name, "sh", enabled, trigger))
    /\ last_op' = [op |-> "add_plugin"]
    /\ UNCHANGED nonPluginVars

\* PluginManager::enable_plugin and disable_plugin
SetEnabled ==
    /\ \E name \in NameArgs, enabled \in BOOLEAN :
        IF name \in DOMAIN plugins
        THEN /\ plugins' = [plugins EXCEPT ![name].enabled = enabled]
             /\ last_op' = [op |-> "set_enabled", result |-> Ok(name)]
        ELSE /\ plugins' = plugins
             /\ last_op' = [op |-> "set_enabled",
                            result |-> Err("Plugin not found", name)]
    /\ UNCHANGED nonPluginVars

\* a caller of PluginManager::execute_plugin (Commands::Plugin)
Execute ==
    /\ \E name \in NameArgs, input \in FgTexts, outcome \in ProcessOutcomes :
        last_op' = [op |-> "execute", name |-> name, input |-> input,
                    outcome |-> outcome,
                    spawned |-> Spawns(plugins, name, outcome),
                    result |-> ExecutePlugin(plugins, name, input, outcome)]
    /\ UNCHANGED plugins
    /\ UNCHANGED nonPluginVars

\* a caller of PluginManager::trigger_plugins(trigger, clip)
Trigger ==
    /\ \E trigger \in PluginTrigger, c \in FgTexts :
        \E order \in Orders(Triggered(plugins, trigger)) :
            \E outs \in [Triggered(plugins, trigger) -> ProcessOutcomes] :
                LET clip == AddClipRow(<<>>, next_uuid, c, "text", now)[1]
                IN  last_op' = [op |-> "trigger", trigger |-> trigger,
                                clip |-> clip,
                                calls |-> Calls(plugins, order, outs, clip.content),
                                result |-> Ok(<<>>)]
    /\ UNCHANGED plugins
    /\ UNCHANGED nonPluginVars

NextPlugins == Load \/ Register \/ SetEnabled \/ Execute \/ Trigger

SpecPlugins == InitPlugins /\ [][NextPlugins]_vars

----------------------------------------------------------------------------
(* A foreground writer statement by statement, and a reader beside it *)

\* what a connection finds in the database file: the three tables and the
\* AUTOINCREMENT counter of table tags
Snapshot(rows, tgs, seq, ct) ==
    [clips |-> rows, tags |-> tgs, tag_seq |-> seq, clip_tags |-> ct]

Current == Snapshot(clips, tags, tag_seq, clip_tags)

\* files written earlier by Database::backup: copies of the database file
Backups ==
    {Snapshot(<<RowOf(1, 0)>>, {}, 0, {}),
     Snapshot(<<RowOf(1, 0), RowOf(2, 0)>>, {[id |-> 1, name |-> "x"]}, 1,
              {<<1, 1>>})}

InitConc ==
    /\ clips = <<RowOf(1, 0), RowOf(2, 0)>>
    /\ tags = {}
    /\ tag_seq = 0
    /\ clip_tags = {}
    /\ fk \in BOOLEAN
    /\ next_uuid = 3
    /\ now = 0
    /\ os_clipboard = None
    /\ pc = "sleep"
    /\ last_content = None
    /\ content = None
    /\ fg = None
    /\ fired = <<>>
    /\ ticks = <<>>
    /\ fg_count = 0
    /\ trace = TRUE
    /\ plugins = NoPlugins
    /\ guards = {"clipboard"}
    /\ config = [max_clips |-> MaxClips]
    /\ accessor = None
    /\ file \in {Some(b) : b \in Backups}
    /\ writer = None
    /\ last_op = [op |-> "none"]

\* the tag name the writer is given: the one the backups carry
ConcTagNames == {"x"}

concFrame ==
    <<fk, trace, guards, config, accessor, file, plugins, now, os_clipboard,
      pc, last_content, content, fg, fired, ticks, fg_count>>

\* the store after the whole of add_tag_to_clip(clip_id, name)
AfterTag(clip_id, name) ==
    LET tgs == InsertOrIgnoreTag(tags, tag_seq, name)
    IN  Snapshot(clips, tgs,
                 IF tgs = tags THEN tag_seq ELSE tag_seq + 1,
                 IF fk /\ clip_id \notin Ids(clips) THEN clip_tags
                 ELSE InsertOrIgnoreClipTag(clip_tags, clip_id, TagIdOf(tgs, name)))

\* add_tag_to_clip, database.rs lines 267-268: INSERT OR IGNORE INTO tags,
\* committed on its own
TagInsertTag ==
    /\ writer = None
    /\ \E clip_id \in ClipIdArgs, name \in ConcTagNames :
        LET tgs == InsertOrIgnoreTag(tags, tag_seq, name)
        IN  /\ tags' = tgs
            /\ tag_seq' = IF tgs = tags THEN tag_seq ELSE tag_seq + 1
            /\ writer' = Some([op |-> "tag", at |-> "select", clip_id |-> clip_id,
                               name |-> name, tag_id |-> 0, before |-> Current,
                               after |-> AfterTag(clip_id, name)])
    /\ last_op' = [op |-> "tag_insert"]
    /\ UNCHANGED <<clips, clip_tags, next_uuid>>
    /\ UNCHANGED concFrame

\* add_tag_to_clip, database.rs lines 271-272: SELECT id FROM tags
TagSelectId ==
    /\ writer # None
    /\ writer[1].op = "tag"
    /\ writer[1].at = "select"
    /\ writer' = Some([writer[1] EXCEPT !.at = "associate",
                                        !.tag_id = TagIdOf(tags, writer[1].name)])
    /\ last_op' = [op |-> "tag_select"]
    /\ UNCHANGED <<clips, tags, tag_seq, clip_tags, next_uuid>>
    /\ UNCHANGED concFrame

\* add_tag_to_clip, database.rs lines 275-276: INSERT OR IGNORE INTO clip_tags,
\* which fails when foreign keys are enforced and clip_id names no entry
TagAssociate ==
    /\ writer # None
    /\ writer[1].op = "tag"
    /\ writer[1].at = "associate"
    /\ clip_tags' = IF fk /\ writer[1].clip_id \notin Ids(clips) THEN clip_tags
                    ELSE InsertOrIgnoreClipTag(clip_tags, writer[1].clip_id,
                                               writer[1].tag_id)
    /\ writer' = None
    /\ last_op' = [op |-> "tag_associate"]
    /\ UNCHANGED <<clips, tags, tag_seq, next_uuid>>
    /\ UNCHANGED concFrame

\* Database::restore, database.rs line 341: std::fs::copy opens the database
\* file for writing and truncates it before it copies anything
RestoreTruncate ==
    /\ writer = None
    /\ file # None
    /\ Current # file[1]
    /\ clips' = <<>>
    /\ tags' = {}
    /\ tag_seq' = 0
    /\ clip_tags' = {}
    /\ writer' = Some([op |-> "restore", before |-> Current, after |-> file[1]])
    /\ last_op' = [op |-> "restore_truncate"]
    /\ UNCHANGED next_uuid
    /\ UNCHANGED concFrame

\* Database::restore, database.rs line 341: std::fs::copy copies the source
\* front to back, some of it at a time; the rows of clips stand for the pages
\* of the file, the other tables come with the last of them
RestoreCopy ==
    /\ writer # None
    /\ writer[1].op = "restore"
    /\ \E n \in (Len(clips) + 1)..Len(file[1].clips) :
        LET whole == n = Len(file[1].clips)
        IN  /\ clips' = SubSeq(file[1].clips, 1, n)
            /\ tags' = IF whole THEN file[1].tags ELSE tags
            /\ tag_seq' = IF whole THEN file[1].tag_seq ELSE tag_seq
            /\ clip_tags' = IF whole THEN file[1].clip_tags ELSE clip_tags
            /\ writer' = IF whole THEN None ELSE writer
    /\ last_op' = [op |-> "restore_copy"]
    /\ UNCHANGED next_uuid
    /\ UNCHANGED concFrame

\* a reader on a connection of its own: it takes no lock the writer honours,
\* and sees the file as it is between two steps of the writer
ConcRead ==
    /\ last_op.op # "read"
    /\ last_op' = [op |-> "read", seen |-> Current,
                   whole |-> IF writer = None THEN {Current}
                             ELSE {writer[1].before, writer[1].after}]
    /\ UNCHANGED <<clips, tags, tag_seq, clip_tags, next_uuid, writer>>
    /\ UNCHANGED concFrame

\* one-statement writers: add_clip, trim_history, clear_history
ConcInsert == writer = None /\ Insert
ConcTrim == writer = None /\ StoreTrim
ConcClear == writer = None /\ Clear

NextConc ==
    \/ TagInsertTag
    \/ TagSelectId
    \/ TagAssociate
    \/ RestoreTruncate
    \/ RestoreCopy
    \/ ConcRead
    \/ ConcInsert
    \/ ConcTrim
    \/ ConcClear

SpecConc == InitConc /\ [][NextConc]_vars

----------------------------------------------------------------------------
(* Export and import: Commands::Export and Commands::Import, format json *)

\* the largest store exported
MaxExport == 2

\* serde_json writes a string: the quote, the backslash and the line feed are
\* written as two characters, every other character as itself
JsonEscapeChar(ch) ==
    IF ch = "\"" THEN <<"\\", "\"">>
    ELSE IF ch = "\\" THEN <<"\\", "\\">>
    ELSE IF ch = "\n" THEN <<"\\", "n">>
    ELSE <<ch>>

RECURSIVE JsonEscape(_)
JsonEscape(s) ==
    IF s = <<>> THEN <<>> ELSE JsonEscapeChar(Head(s)) \o JsonEscape(Tail(s))

JsonString(s) == <<"\"">> \o JsonEscape(s) \o <<"\"">>

\* serde_json reads a string: a backslash and the character after it stand for
\* one character
RECURSIVE JsonUnescape(_)
JsonUnescape(j) ==
    IF j = <<>> THEN <<>>
    ELSE IF Head(j) = "\\" /\ Len(j) >= 2
         THEN <<IF j[2] = "n" THEN "\n" ELSE j[2]>> \o JsonUnescape(SubSeq(j, 3, Len(j)))
         ELSE <<Head(j)>> \o JsonUnescape(Tail(j))

\* a reader of strings that takes every character between the quotes as it is
JsonParseKeepEscapes(j) == SubSeq(j, 2, Len(j) - 1)

\* the text of a string: what stands between its quotes, read
JsonParseString(j) == JsonUnescape(SubSeq(j, 2, Len(j) - 1))

\* the characters of the clip_type values
TypeChars == [text |-> <<"t", "e", "x", "t">>, file |-> <<"f", "i", "l", "e">>]

TypeOfChars(s) == CHOOSE k \in DOMAIN TypeChars : TypeChars[k] = s

\* #[derive(Serialize)] on struct Clip: one object per entry
ClipToJson(clip) ==
    [id |-> clip.id,
     content |-> JsonString(clip.content),
     clip_type |-> JsonString(TypeChars[clip.clip_type]),
     created_at |-> clip.created_at,
     file_path |-> IF clip.file_path = None THEN "null"
                   ELSE JsonString(clip.file_path[1])]

\* #[derive(Deserialize)] on struct Clip
ClipFromJson(obj) ==
    [id |-> obj.id,
     content |-> JsonParseString(obj.content),
     clip_type |-> TypeOfChars(JsonParseString(obj.clip_type)),
     created_at |-> obj.created_at,
     file_path |-> IF obj.file_path = "null" THEN None
                   ELSE Some(JsonParseString(obj.file_path))]

\* serde_json::to_string_pretty(&clips)
ToJson(list) == [i \in 1..Len(list) |-> ClipToJson(list[i])]

\* serde_json::from_str(&content)
FromJson(doc) == [i \in 1..Len(doc) |-> ClipFromJson(doc[i])]

\* Database::add_file_clip: the path is the content and the file_path
AddFileClipRow(rows, id, path, t) ==
    Append(rows, [id |-> id, content |-> path, clip_type |-> "file",
                  created_at |-> t, file_path |-> Some(path)])

\* Commands::Import, main.rs lines 303-305: add_clip(&clip.content,
\* &clip.clip_type) for every clip read, each under an id of its own
RECURSIVE ImportClips(_, _, _, _)
ImportClips(rows, list, id, t) ==
    IF list = <<>> THEN rows
    ELSE ImportClips(AddClipRow(rows, id, Head(list).content, Head(list).clip_type, t),
                     Tail(list), id + 1, t)

\* what the clipboard and the file system hand in: a letter, a quote, a
\* backslash before a letter, a line feed, and a path
TextContents == {<<"a">>, <<"\"">>, <<"\\", "n">>, <<"\n">>}
PathContents == {<<"/", "a">>}

\* a store as add_clip and add_file_clip fill it, entry by entry
RECURSIVE FilledStores(_)
FilledStores(n) ==
    IF n = 0 THEN {<<>>}
    ELSE LET less == FilledStores(n - 1)
         IN  less
             \cup {AddClipRow(rows, Len(rows) + 1, c, "text", 0) :
                        rows \in {r \in less : Len(r) = n - 1}, c \in TextContents}
             \cup {AddFileClipRow(rows, Len(rows) + 1, c, 0) :
                        rows \in {r \in less : Len(r) = n - 1}, c \in PathContents}

InitPorts ==
    /\ clips \in FilledStores(MaxExport)
    /\ tags = {}
    /\ tag_seq = 0
    /\ clip_tags = {}
    /\ fk = TRUE
    /\ next_uuid = MaxExport + 1
    /\ now = 0
    /\ os_clipboard = None
    /\ pc = "sleep"
    /\ last_content = None
    /\ content = None
    /\ fg = None
    /\ fired = <<>>
    /\ ticks = <<>>
    /\ fg_count = 0
    /\ trace = TRUE
    /\ plugins = NoPlugins
    /\ guards = {"clipboard"}
    /\ config = [max_clips |-> MaxClips]
    /\ accessor = None
    /\ file = None
    /\ writer = None
    /\ last_op = [op |-> "none"]

portFrame ==
    <<tags, tag_seq, fk, trace, guards, config, accessor, writer, plugins, now,
      os_clipboard, pc, last_content, content, fg, fired, ticks, fg_count>>

\* Commands::Export with format json, main.rs lines 255-264; the file keeps,
\* beside the document, the store it was written from
Export ==
    /\ file = None
    /\ \E list \in GetAllClips(clips) :
        file' = Some([json |-> ToJson(list), exported |-> clips])
    /\ last_op' = [op |-> "export"]
    /\ UNCHANGED <<clips, clip_tags, next_uuid>>
    /\ UNCHANGED portFrame

\* Commands::Import with format json, main.rs lines 295-307: the clips are
\* added one by one, and the first add_clip that fails ends the command
Import ==
    /\ file # None
    /\ last_op.op # "import"
    /\ next_uuid + Len(file[1].json) <= 2 * MaxExport + 1
    /\ \E n \in 0..Len(file[1].json) :
        LET list == FromJson(file[1].json)
        IN  /\ clips' = ImportClips(clips, SubSeq(list, 1, n), next_uuid, now)
            /\ next_uuid' = next_uuid + n
            /\ last_op' = [op |-> "import", ok |-> n = Len(list), into |-> clips]
    /\ UNCHANGED <<clip_tags, file>>
    /\ UNCHANGED portFrame

\* Commands::Clear between the two
PortClear == file # None /\ Clear

NextPorts == Export \/ Import \/ PortClear

SpecPorts == InitPorts /\ [][NextPorts]_vars

----------------------------------------------------------------------------
(* A Clipboard Accessor on its own: ClipboardManager of clipboard.rs *)

InitAcc ==
    /\ clips = <<>>
    /\ tags = {}
    /\ tag_seq = 0
    /\ clip_tags = {}
    /\ fk = TRUE
    /\ next_uuid = 1
    /\ now = 0
    /\ os_clipboard \in {None} \cup {Some(c) : c \in ClipValues}
    /\ pc = "sleep"
    /\ last_content = None
    /\ content = None
    /\ fg = None
    /\ fired = <<>>
    /\ ticks = <<>>
    /\ fg_count = 0
    /\ trace = TRUE
    /\ plugins = NoPlugins
    /\ guards = {"clipboard"}
    /\ config = [max_clips |-> MaxClips]
    /\ accessor = None
    /\ file = None
    /\ writer = None
    /\ last_op = [op |-> "none", before |-> None, since |-> None]

accFrame ==
    <<clips, tags, tag_seq, clip_tags, fk, trace, guards, config, file, writer,
      plugins, next_uuid, now, pc, last_content, content, fg, fired, ticks,
      fg_count>>

\* ClipboardManager::set_text.  last_op.since remembers the text of a
\* successful set_text for as long as the OS clipboard has held it.
SetText ==
    /\ \E text \in ClipValues, ok \in BOOLEAN :
        /\ os_clipboard' = IF ok THEN Some(text) ELSE os_clipboard
        /\ accessor' = SetTextLast(accessor, text, ok)
        /\ last_op' = [op |-> "set_text", ok |-> ok, text |-> text,
                       before |-> accessor,
                       since |-> IF ok THEN Some(text) ELSE last_op.since]
    /\ UNCHANGED accFrame

\* ClipboardManager::has_changed
HasChanged ==
    /\ \E r \in GetText(os_clipboard) :
        /\ accessor' = HasChangedLast(accessor, r)
        /\ last_op' = [op |-> "has_changed", result |-> HasChangedResult(accessor, r),
                       read |-> r, before |-> accessor, since |-> last_op.since]
    /\ UNCHANGED os_clipboard
    /\ UNCHANGED accFrame

\* ClipboardManager::monitor_changes, clipboard.rs lines 52-60: one turn of
\* its loop, which hands a changed text to the callback
MonitorChanges ==
    /\ \E r \in GetText(os_clipboard) :
        /\ accessor' = HasChangedLast(accessor, r)
        /\ last_op' = [op |-> "monitor_changes", result |-> HasChangedResult(accessor, r),
                       read |-> r, before |-> accessor, since |-> last_op.since]
    /\ UNCHANGED os_clipboard
    /\ UNCHANGED accFrame

\* another program puts something else on the OS clipboard
OtherCopy ==
    /\ \E v \in {None} \cup {Some(c) : c \in ClipValues} :
        /\ v # os_clipboard
        /\ os_clipboard' = v
    /\ last_op' = [op |-> "copy", before |-> accessor, since |-> None]
    /\ UNCHANGED accessor
    /\ UNCHANGED accFrame

NextAcc == SetText \/ HasChanged \/ MonitorChanges \/ OtherCopy

SpecAcc == InitAcc /\ [][NextAcc]_vars

----------------------------------------------------------------------------
(* The entries under every writer: insert, add file, trim, tag, untag, clear *)

\* the number of entries written
MaxEntries == 2

InitEntries ==
    /\ clips = <<>>
    /\ tags = {}
    /\ tag_seq = 0
    /\ clip_tags = {}
    /\ fk = TRUE
    /\ next_uuid = 1
    /\ now = 0
    /\ os_clipboard = None
    /\ pc = "sleep"
    /\ last_content = None
    /\ content = None
    /\ fg = None
    /\ fired = <<>>
    /\ ticks = <<>>
    /\ fg_count = 0
    /\ trace = TRUE
    /\ plugins = NoPlugins
    /\ guards = {"clipboard"}
    /\ config = [max_clips |-> MaxClips]
    /\ accessor = None
    /\ file = None
    /\ writer = None
    /\ last_op = [op |-> "none"]

\* Commands::Add, main.rs line 181: add_clip(text, "text") at the second the
\* clock has reached
InsertText ==
    /\ next_uuid <= MaxEntries
    /\ \E c \in FgTexts, t \in now..MaxTime :
        /\ clips' = AddClipRow(clips, next_uuid, c, "text", t)
        /\ now' = t
    /\ next_uuid' = next_uuid + 1
    /\ last_op' = [op |-> "insert_text"]
    /\ UNCHANGED <<tags, tag_seq, clip_tags, fk, trace, guards, config, accessor, file, writer, plugins, os_clipboard, pc,
                   last_content, content, fg, fired, ticks, fg_count>>

\* Commands::File, main.rs lines 338-349: add_file_clip(path) at the second
\* the clock has reached
InsertFile ==
    /\ next_uuid <= MaxEntries
    /\ \E path \in PathContents, t \in now..MaxTime :
        /\ clips' = AddFileClipRow(clips, next_uuid, path, t)
        /\ now' = t
    /\ next_uuid' = next_uuid + 1
    /\ last_op' = [op |-> "insert_file"]
    /\ UNCHANGED <<tags, tag_seq, clip_tags, fk, trace, guards, config, accessor, file, writer, plugins, os_clipboard, pc,
                   last_content, content, fg, fired, ticks, fg_count>>

\* Commands::Tag with the one tag name of ConcTagNames
EntryTag ==
    /\ \E clip_id \in ClipIdArgs, name \in ConcTagNames : AddTagToClip(clip_id, name)
    /\ UNCHANGED <<clips, fk, trace, guards, config, accessor, file, writer, plugins, next_uuid, now, os_clipboard, pc, last_content,
                   content, fg, fired, ticks, fg_count>>

\* Commands::Untag with the one tag name of ConcTagNames
EntryUntag ==
    /\ \E clip_id \in ClipIdArgs, name \in ConcTagNames : RemoveTag(clip_id, name)
    /\ UNCHANGED <<clips, tags, tag_seq, fk, trace, guards, config, accessor, file, writer, plugins, next_uuid, now, os_clipboard, pc,
                   last_content, content, fg, fired, ticks, fg_count>>

NextEntries ==
    \/ InsertText
    \/ InsertFile
    \/ StoreTrim
    \/ EntryTag
    \/ EntryUntag
    \/ Clear

SpecEntries == InitEntries /\ [][NextEntries]_vars

----------------------------------------------------------------------------
(* The daemon beside the commands that insert: add, file, import, web add *)

\* foreground commands in one behaviour
MaxBeside == 2

\* the lines of the files given to `import --format txt`
ImportFiles == {<< <<"a">>, <<" ">>, <<" ", "b">> >>}

\* the kinds a web request names
WebKinds == {"text"}

\* main.rs lines 324-326: the lines that are not blank, trimmed, in order
TxtLines(lines) ==
    LET kept == SelectSeq(lines, LAMBDA l : ~IsBlank(l))
    IN  [i \in 1..Len(kept) |-> Trim(kept[i])]

\* a foreground insert that trims the store to the bound after it
BesideInsertTrimming(rows) ==
    /\ Len(clips) <= MaxRows
    /\ clips' \in TrimHistory(rows, MaxClips)
    /\ next_uuid' = next_uuid + 1

\* the store after a foreground command's add_clip or add_file_clip: the row
\* is there and nothing else has changed, no trim_history follows
\* (main.rs lines 181, 305, 320, 327, 348; web.rs line 158)
BesideInsert(rows) ==
    /\ Len(clips) <= MaxRows
    /\ clips' = rows
    /\ next_uuid' = next_uuid + 1

\* Commands::File, main.rs lines 338-347: the path exists and set_text(path)
\* on a ClipboardManager of the command's own succeeds, or the command ends
FileSetText ==
    /\ writer = None
    /\ fg_count < MaxBeside
    /\ fg_count' = fg_count + 1
    /\ \E path \in PathContents :
        \/ /\ os_clipboard' = Some(path)
           /\ writer' = Some(path)
        \/ UNCHANGED <<os_clipboard, writer>>
    /\ UNCHANGED <<clips, tags, tag_seq, clip_tags, fk, trace, guards, config, accessor, file,
                   plugins, next_uuid, now, pc, last_content, content, fg, fired, ticks,
                   last_op>>

\* Commands::File, main.rs lines 348-350: db.add_file_clip(path)?
FileAddClip ==
    /\ writer # None
    /\ writer' = None
    /\ \/ /\ BesideInsert(AddFileClipRow(clips, next_uuid, writer[1], now))
          /\ last_op' = [op |-> "fg_file"]
       \/ UNCHANGED <<clips, next_uuid, last_op>>
    /\ UNCHANGED <<tags, tag_seq, clip_tags, fk, trace, guards, config, accessor, file,
                   plugins, now, os_clipboard, pc, last_content, content, fg, fired, ticks,
                   fg_count>>

\* Commands::Import with format txt, main.rs lines 296-297 and 322-326: the
\* file is read and its lines are taken one by one
ImportRead ==
    /\ file = None
    /\ fg_count < MaxBeside
    /\ fg_count' = fg_count + 1
    /\ \E lines \in ImportFiles : file' = Some(TxtLines(lines))
    /\ UNCHANGED <<clips, tags, tag_seq, clip_tags, fk, trace, guards, config, accessor, writer,
                   plugins, next_uuid, now, os_clipboard, pc, last_content, content, fg,
                   fired, ticks, last_op>>

\* Commands::Import with format txt, main.rs lines 327-328:
\* db.add_clip(line.trim(), "text")? for the next line; a failure ends the
\* command, and so does the end of the lines
ImportLine ==
    /\ file # None
    /\ \/ /\ file[1] # <<>>
          /\ BesideInsert(AddClipRow(clips, next_uuid, Head(file[1]), "text", now))
          /\ file' = IF Len(file[1]) = 1 THEN None ELSE Some(Tail(file[1]))
          /\ last_op' = [op |-> "fg_import"]
       \/ /\ file' = None
          /\ UNCHANGED <<clips, next_uuid, last_op>>
    /\ UNCHANGED <<tags, tag_seq, clip_tags, fk, trace, guards, config, accessor, writer,
                   plugins, now, os_clipboard, pc, last_content, content, fg, fired, ticks,
                   fg_count>>

\* web::add_clip, web.rs lines 156-160: db.add_clip(&request.content,
\* &request.clip_type), answered with "success" or rejected
WebAddClip ==
    /\ fg_count < MaxBeside
    /\ fg_count' = fg_count + 1
    /\ \/ /\ \E c \in FgTexts, clip_type \in WebKinds :
                BesideInsert(AddClipRow(clips, next_uuid, c, clip_type, now))
          /\ last_op' = [op |-> "web_add"]
       \/ UNCHANGED <<clips, next_uuid, last_op>>
    /\ UNCHANGED <<tags, tag_seq, clip_tags, fk, trace, guards, config, accessor, file, writer,
                   plugins, now, os_clipboard, pc, last_content, content, fg, fired, ticks>>

\* the daemon while add, file, import and web add run beside it
NextBeside ==
    \/ Monitor
    \/ FgAddSetText
    \/ FgAddClip
    \/ FileSetText
    \/ FileAddClip
    \/ ImportRead
    \/ ImportLine
    \/ WebAddClip

\* as InitFg, with the OS clipboard as the daemon finds it when it starts
InitBeside ==
    /\ clips = <<>>
    /\ tags = {}
    /\ tag_seq = 0
    /\ clip_tags = {}
    /\ fk = TRUE
    /\ next_uuid = 1
    /\ now = 0
    /\ os_clipboard \in {None} \cup {Some(c) : c \in FgTexts}
    /\ pc = "sleep"
    /\ last_content = None
    /\ content = None
    /\ fg = None
    /\ fired = <<>>
    /\ ticks = <<>>
    /\ fg_count = 0
    /\ trace = FALSE
    /\ plugins = NoPlugins
    /\ guards = {"clipboard"}
    /\ config = [max_clips |-> MaxClips]
    /\ accessor = None
    /\ file = None
    /\ writer = None
    /\ last_op = [op |-> "none"]

SpecBeside == InitBeside /\ [][NextBeside]_vars

----------------------------------------------------------------------------
(* Reading the tick history *)

NTicks == Len(ticks)

\* tick i read a text from the clipboard
ReadText(i) == ticks[i].read.ok /\ ticks[i].read.val # None

ReadVal(i) == ticks[i].read.val[1]

\* tick i read a text that is not blank
ReadReal(i) == ReadText(i) /\ ~IsBlank(ReadVal(i))

\* tick i read whitespace only
ReadBlank(i) == ReadText(i) /\ IsBlank(ReadVal(i))

\* tick i presented nothing real: a failed read, no text, or a blank text
Silent(i) == ~ReadReal(i)

\* tick i has run to its end
Complete(i) == i < NTicks \/ (i = NTicks /\ pc = "sleep")

\* ticks i < j read the same real value, with nothing real between them
SameRun(i, j) ==
    /\ i < j
    /\ ReadReal(i) /\ ReadReal(j)
    /\ ReadVal(i) = ReadVal(j)
    /\ \A k \in (i + 1)..(j - 1) : Silent(k)

\* tick i is the first presentation of its value: the real value read
\* before it, if any, is another one
FirstOfRun(i) ==
    /\ ReadReal(i)
    /\ \A h \in 1..(i - 1) :
        (ReadReal(h) /\ \A k \in (h + 1)..(i - 1) : Silent(k))
            => ReadVal(h) # ReadVal(i)

StoredIn(i, j) == Cardinality({k \in i..j : ticks[k].add = "ok"})

AttemptsIn(i, j) == Cardinality({k \in i..j : ticks[k].attempts > 0})

FailedTick(i) ==
    \/ ~ticks[i].read.ok
    \/ ticks[i].add = "fail"
    \/ ticks[i].trim = "fail"

Contents(s) == [i \in 1..Len(s) |-> s[i].content]

Reverse(s) == [i \in 1..Len(s) |-> s[Len(s) + 1 - i]]

Presented == [i \in 1..NTicks |-> ReadVal(i)]

----------------------------------------------------------------------------
(* Claims about the Monitor Loop *)

\* C1: right after a Monitor Loop tick has inserted an entry and its trim has
\* succeeded, the store holds at most max_clips entries, however many it held
\* before (foreground `add` commands may have pushed it above the bound).
C1_BoundAfterTrim ==
    last_op.op = "monitor_trim" => Len(clips) <= MaxClips

\* a trim has cut a store that was above the bound before the tick's insert
C1_Witness ==
    /\ last_op.op = "monitor_trim"
    /\ last_op.before > MaxClips + 1
    /\ fg_count > 0
    /\ Len(clips) = MaxClips

\* C3 as claimed: from an empty store, when the loop has read at most
\* max_clips distinct non-blank values on successive ticks (every insert and
\* trim succeeding, no foreground writer), every result of recent(unbounded)
\* lists exactly those values, newest presentation first.
C3_RecentIsReversePresentation ==
    ( /\ pc = "sleep"
      /\ NTicks <= MaxClips
      /\ \A i \in 1..NTicks : ReadReal(i) /\ ticks[i].add = "ok" /\ ticks[i].trim = "ok"
      /\ \A i, j \in 1..NTicks : i # j => ReadVal(i) # ReadVal(j) )
    => \A r \in GetRecentClips(clips, MaxTicks + MaxRows) :
            Contents(r) = Reverse(Presented)

\* C4 as claimed: the same real value presented on two ticks with nothing
\* real between them ends as exactly one stored entry.
C4_ExactlyOneStored ==
    \A i, j \in 1..NTicks :
        (FirstOfRun(i) /\ SameRun(i, j) /\ Complete(j)) => StoredIn(i, j) = 1

\* C4 as amended: the run costs exactly one insert attempt, made by its first
\* tick; one entry is stored when that insert succeeds and none when it fails.
C4_OneAttemptPerRun ==
    \A i, j \in 1..NTicks :
        (FirstOfRun(i) /\ SameRun(i, j) /\ Complete(j)) =>
            /\ ticks[i].attempts = 1
            /\ AttemptsIn(i + 1, j) = 0
            /\ StoredIn(i, j) = (IF ticks[i].add = "ok" THEN 1 ELSE 0)

\* a value stored, a whitespace-only read, the value again
C4_Witness ==
    \E i, j \in 1..NTicks :
        /\ FirstOfRun(i) /\ SameRun(i, j) /\ Complete(j)
        /\ ticks[i].add = "ok"
        /\ \E k \in (i + 1)..(j - 1) : ReadBlank(k)

C5_NoBlankState ==
    /\ last_content # None => ~IsBlank(last_content[1])
    /\ \A i \in 1..Len(clips) : ~IsBlank(clips[i].content)
    /\ \A i \in 1..NTicks : ticks[i].attempts > 0 => ReadReal(i)

C5_BlankReadStep ==
    (NTicks' = NTicks + 1 /\ ReadBlank(NTicks)')
        => /\ clips' = clips
           /\ last_content' = last_content
           /\ pc' = "sleep"

\* C5: the Monitor Loop never inserts a blank entry, last_seen is never
\* blank, and a tick that reads a blank text changes neither the store nor
\* last_seen.
C5_BlankNeverStored ==
    []C5_NoBlankState /\ [][C5_BlankReadStep]_vars

\* a blank text was read while last_seen held a captured value
C5_Witness ==
    /\ NTicks > 1
    /\ ReadBlank(NTicks)
    /\ last_content # None
    /\ Len(clips) > 0

\* C6 as claimed: once v was captured and a whitespace-only text was read
\* after it, a later read of v counts as a change.
C6_RepeatAfterBlankIsChange ==
    \A i, j, k \in 1..NTicks :
        ( /\ i < j /\ j < k
          /\ ReadReal(i) /\ ticks[i].changed
          /\ ReadBlank(j)
          /\ ReadText(k) /\ ReadVal(k) = ReadVal(i) )
        => ticks[k].changed

\* C6 as amended: when only blank texts, missing texts or failed reads lie
\* between the capture of v and a later read of v, that read is no change:
\* no insert is attempted and last_seen is still v.
C6_RepeatAfterBlankIsNoChange ==
    \A i, k \in 1..NTicks :
        ( /\ SameRun(i, k)
          /\ ticks[i].changed
          /\ \E j \in (i + 1)..(k - 1) : ReadBlank(j) )
        => /\ ~ticks[k].changed
           /\ ticks[k].attempts = 0
           /\ (k = NTicks => last_content = Some(ReadVal(i)) /\ pc = "sleep")

\* v captured, whitespace read, v read again as the latest tick
C6_Witness ==
    /\ NTicks >= 3
    /\ SameRun(NTicks - 2, NTicks)
    /\ ticks[NTicks - 2].changed
    /\ ReadBlank(NTicks - 1)

\* C7 as claimed: in a tick with a real change last_seen is set first, then
\* the entry is inserted, then the entry-added trigger is fired for it, and
\* only then the store is trimmed: every tick that has reached its trim has
\* fired once for its entry.
C7_FireBetweenInsertAndTrim ==
    /\ pc \in {"add", "trim"} => last_content = content
    /\ \A i \in 1..NTicks :
        ticks[i].trim # "none" =>
            /\ ticks[i].add = "ok"
            /\ Len(fired) >= StoredIn(1, i)
            /\ fired[StoredIn(1, i)] = [trigger |-> "OnClipAdd", content |-> ReadVal(i)]

FailedThenPolled(n) ==
    (NTicks = n /\ FailedTick(n)) ~> (NTicks = n + 1)

\* C8: a tick whose read, insert or trim failed does not end the loop: the
\* loop is back in its sleep right after the failure and polls again, after
\* each of any number of failing ticks in a row.
C8_FailureNeverStopsLoop ==
    /\ [](\A i \in 1..NTicks : (FailedTick(i) /\ i = NTicks) => pc = "sleep")
    /\ \A n \in 1..(MaxTicks - 1) : FailedThenPolled(n)

\* two ticks in a row failed (one of them in its insert), and the loop polled again
C8_Witness ==
    \E n \in 1..NTicks :
        /\ n + 2 <= NTicks
        /\ FailedTick(n) /\ FailedTick(n + 1)
        /\ ticks[n].add = "fail" \/ ticks[n + 1].add = "fail"

C9_NoChangeStep ==
    (NTicks' = NTicks + 1 /\ ~ticks'[NTicks + 1].changed)
        => pc' = "sleep" /\ clips' = clips

\* C9: a tick makes at most one insert attempt and then goes back to sleep:
\* at once when the read is missing, unchanged or blank, and after the insert
\* and the trim otherwise, whether they succeed or fail.
C9_OneAttemptThenIdle ==
    /\ [](\A i \in 1..NTicks : ticks[i].attempts <= 1)
    /\ [][C9_NoChangeStep]_vars
    /\ (pc # "sleep") ~> (pc = "sleep")

\* ticks of every kind have ended in the sleep: one whose insert failed, one
\* whose read changed nothing
C9_Witness ==
    /\ pc = "sleep"
    /\ \E i \in 1..NTicks : ticks[i].add = "fail"
    /\ \E i \in 1..NTicks : ReadText(i) /\ ~ticks[i].changed

----------------------------------------------------------------------------
(* Claims about the store *)

SortedNewestFirst(s) ==
    \A i \in 1..Len(s) : i < Len(s) => s[i].created_at >= s[i + 1].created_at

\* the store of the example: "a" (t=1), "b" (t=2), "c" (t=3), in any row order
IsExampleStore(rows) ==
    Range(rows) = {RowOf(1, 1), RowOf(2, 2), RowOf(3, 3)}

\* C2: trim(max) on a store of n entries leaves min(n, max) of them, all of
\* them entries of the store, and none of the removed ones is newer by
\* created_at than a retained one, whatever the row order; on the store a(1),
\* b(2), c(3) trim(2) leaves b and c and recent(10) then gives c, b.
C2_TrimKeepsNewest ==
    /\ last_op.op = "trim" =>
        /\ Len(clips) = Min(Len(last_op.before), last_op.max)
        /\ Range(clips) \subseteq Range(last_op.before)
        /\ \A r \in Range(last_op.before) \ Range(clips), k \in Range(clips) :
                r.created_at <= k.created_at
    /\ (last_op.op = "recent" /\ last_op.prev.op = "trim") =>
        /\ Len(last_op.result) = Min(last_op.limit, Len(clips))
        /\ Range(last_op.result) \subseteq Range(clips)
        /\ SortedNewestFirst(last_op.result)
        /\ (IsExampleStore(last_op.prev.before) /\ last_op.prev.max = 2
                /\ last_op.limit >= 2)
            => Contents(last_op.result) = <<<<"c">>, <<"b">>>>

\* the example on a store whose row order is not the order of created_at:
\* trim(2), then recent gave c, b
C2_Witness ==
    /\ last_op.op = "recent"
    /\ last_op.prev.op = "trim"
    /\ IsExampleStore(last_op.prev.before)
    /\ last_op.prev.before[1] = RowOf(3, 3)
    /\ last_op.prev.max = 2
    /\ Contents(last_op.result) = <<<<"c">>, <<"b">>>>

\* C10 as claimed: tag(id, name) and then untag(id, name) leave tags_for(id)
\* as it was before the tag call, also when id carried name already.
C10_TagUntagRestores ==
    ( /\ last_op.op = "tag_untag"
      /\ last_op.tag_ok /\ last_op.untag_ok
      /\ last_op.clip_id \in Ids(clips) )
    => last_op.post = last_op.pre

\* C10 as amended: tag(id, name) and then a successful untag(id, name) leave
\* tags_for(id) as it was before the tag call with name taken out: restored
\* when id did not carry name before, and without name when it did.
C10_TagUntagRemovesName ==
    (last_op.op = "tag_untag" /\ last_op.untag_ok) =>
        /\ last_op.post = last_op.pre \ {last_op.name}
        /\ last_op.name \notin last_op.pre => last_op.post = last_op.pre
        /\ last_op.post = GetClipTags(clip_tags, tags, last_op.clip_id)

\* an entry that carried another tag was tagged and untagged, and carries
\* what it carried before
C10_Witness ==
    /\ last_op.op = "tag_untag"
    /\ last_op.tag_ok /\ last_op.untag_ok
    /\ last_op.clip_id \in Ids(clips)
    /\ last_op.pre # {}
    /\ last_op.name \notin last_op.pre
    /\ last_op.post = last_op.pre

----------------------------------------------------------------------------
(* Claims about tagging *)

\* the associations of entry clip_id with a tag named name
AssociationsOf(clip_id, name) ==
    {a \in clip_tags : a[1] = clip_id /\ \E t \in tags : t.id = a[2] /\ t.name = name}

TagsNamed(name) == {t \in tags : t.name = name}

C11_TagTwiceState ==
    (last_op.op = "tag" /\ last_op.again /\ last_op.io = "ok") =>
        /\ last_op.ok
        /\ Cardinality(AssociationsOf(last_op.clip_id, last_op.name)) = 1
        /\ Cardinality(TagsNamed(last_op.name)) = 1
        /\ last_op.name \in last_op.pre

C11_UntagAbsentStep ==
    ( /\ last_op'.op \in {"untag", "tag_untag"}
      /\ last_op' # last_op
      /\ (IF last_op'.op = "untag" THEN last_op'.ok ELSE last_op'.untag_ok)
      /\ AssociationsOf(last_op'.clip_id, last_op'.name) = {} )
    => /\ clip_tags' = clip_tags
       /\ tags' = tags
       /\ clips' = clips

\* C11: a second tag(id, name) right after a successful one succeeds too
\* (unless the storage itself fails) and leaves exactly one association
\* (id, name) and exactly one tag record named name; an untag of an
\* association that does not exist succeeds and changes nothing.
C11_TagIdempotent ==
    []C11_TagTwiceState /\ [][C11_UntagAbsentStep]_vars

\* an entry of the store was tagged twice with the same name, and both calls
\* succeeded
C11_Witness ==
    /\ last_op.op = "tag"
    /\ last_op.again
    /\ last_op.ok
    /\ last_op.clip_id \in Ids(clips)
    /\ Cardinality(AssociationsOf(last_op.clip_id, last_op.name)) = 1

\* C12 as claimed: in every state reached by insert, tag, untag, trim and
\* clear, also by a tag call that names no entry of the store, each
\* association refers to an entry that exists and to a tag that exists.
C12_NoDanglingAssociation ==
    \A a \in clip_tags :
        /\ a[1] \in Ids(clips)
        /\ \E t \in tags : t.id = a[2]

\* the entries the last clear or trim deleted
DeletedByLastOp ==
    IF last_op.op \in {"clear", "trim"} THEN Ids(last_op.before) \ Ids(clips) ELSE {}

\* C13 as claimed: right after a clear, or a trim that removed entries,
\* tags_for of each deleted id is empty and entries_for_tag of no name
\* returns a deleted entry.
C13_DeletedEntriesLoseTags ==
    \A id \in DeletedByLastOp :
        /\ GetClipTags(clip_tags, tags, id) = {}
        /\ \A name \in TagNames :
            \A r \in GetClipsByTag(clips, clip_tags, tags, name) : id \notin Ids(r)

\* the ids handed out so far
Assigned == 1..(next_uuid - 1)

C14_DistinctIds ==
    /\ \A i, j \in 1..Len(clips) : i # j => clips[i].id # clips[j].id
    /\ Ids(clips) \subseteq Assigned

C14_FreshIdStep ==
    (last_op'.op = "insert" /\ Len(clips') = Len(clips) + 1) =>
        /\ clips'[Len(clips')].id \notin Assigned
        /\ clips'[Len(clips')].id \notin Ids(clips)
        /\ Assigned \subseteq Assigned'
        /\ clips'[Len(clips')].id \in Assigned'

\* C14: no two entries of the store share an id, and the id of a new entry
\* is one that no entry had before, also when its earlier holder was removed
\* by trim or clear.
C14_IdsNeverReused ==
    []C14_DistinctIds /\ [][C14_FreshIdStep]_vars

\* an entry was inserted after a trim or a clear had removed an earlier one
C14_Witness ==
    /\ last_op.op = "insert"
    /\ Len(clips) >= 1
    /\ Len(clips) < Cardinality(Assigned)
    /\ clips[Len(clips)].id = next_uuid - 1

----------------------------------------------------------------------------
(* Claims about the read operations *)

\* the place of row r in the table: rows lie in the order of their insertion
RowPos(rows, r) == CHOOSE i \in 1..Len(rows) : rows[i] = r

\* result lists n rows of rows, each once, never an older one before a newer
\* one, and leaves out no row newer than one it lists
NewestOf(result, rows, n) ==
    /\ Len(result) = n
    /\ Range(result) \subseteq Range(rows)
    /\ Cardinality(Range(result)) = n
    /\ SortedNewestFirst(result)
    /\ \A r \in Range(rows) \ Range(result), k \in Range(result) :
            r.created_at <= k.created_at

\* C15: recent(limit) returns min(limit, n) entries of the store, newest
\* first by created_at, and leaves out no entry newer than a returned one;
\* all() returns every entry, newest first.
C15_RecentAndAllNewestFirst ==
    /\ last_op.op = "recent" =>
            NewestOf(last_op.result, clips, Min(last_op.limit, Len(clips)))
    /\ last_op.op = "all" =>
            /\ NewestOf(last_op.result, clips, Len(clips))
            /\ Range(last_op.result) = Range(clips)

\* recent cut a store whose rows are not in the order of created_at, between
\* two entries of different age
C15_Witness ==
    /\ last_op.op = "recent"
    /\ last_op.limit > 0
    /\ last_op.limit < Len(clips)
    /\ ~SortedNewestFirst(clips)
    /\ \E r \in Range(clips) \ Range(last_op.result) :
            r.created_at < last_op.result[Len(last_op.result)].created_at

\* C16 as claimed: entries with equal created_at come out of every read in
\* the order of their insertion (the later one first, as the newer), and a
\* trim that separates two of them keeps the later inserted one.
C16_TiesByInsertionOrder ==
    /\ last_op.op \in ReadOps =>
        \A i, j \in 1..Len(last_op.result) :
            (i < j /\ last_op.result[i].created_at = last_op.result[j].created_at)
                => RowPos(clips, last_op.result[i]) > RowPos(clips, last_op.result[j])
    /\ last_op.op = "trim" =>
        \A r \in Range(last_op.before) \ Range(clips), k \in Range(clips) :
            r.created_at = k.created_at
                => RowPos(last_op.before, k) > RowPos(last_op.before, r)

\* sub occurs in s, character for character
Contains(s, sub) ==
    \E i \in 0..(Len(s) - Len(sub)) : SubSeq(s, i + 1, i + Len(sub)) = sub

\* C17 as claimed: search(substr, limit) returns the at most limit newest
\* entries among exactly those whose content contains substr literally, case
\* and the characters % and _ included.
C17_SearchIsLiteralSubstring ==
    last_op.op = "search" =>
        LET literal == SelectSeq(clips, LAMBDA r : Contains(r.content, last_op.query))
        IN  NewestOf(last_op.result, literal, Min(last_op.limit, Len(literal)))

----------------------------------------------------------------------------
(* Claims about the Event Trigger Hub *)

\* the enabled handlers whose subscription is the trigger kind k
Subscribed(reg, k) == {n \in DOMAIN reg : reg[n].enabled /\ reg[n].trigger = k}

\* the lifecycle events fire is called for
FireKinds ==
    {"OnClipAdd", "OnClipSearch", "OnClipPick", "OnDaemonStart", "OnDaemonStop"}

CalledNames(calls) == {calls[i].name : i \in 1..Len(calls)}

\* calls invokes each handler in S once, with input on its standard input,
\* and no other handler
CallsEachOnce(calls, S, input) ==
    /\ CalledNames(calls) = S
    /\ Len(calls) = Cardinality(S)
    /\ \A i \in 1..Len(calls) : calls[i].input = input

\* C18 as claimed: for each of the five trigger kinds k, fire(k, entry)
\* invokes every enabled handler subscribed to k once with the content of
\* the entry, and no other handler.
C18_FireInvokesSubscribed ==
    (last_op.op = "trigger" /\ last_op.trigger \in FireKinds) =>
        CallsEachOnce(last_op.calls, Subscribed(plugins, last_op.trigger),
                      last_op.clip.content)

\* C19: when a handler fails during a fire, every enabled handler
\* subscribed to the fired kind is still invoked, once, with the content of
\* the entry, before or after the failing one; and fire reports success
\* whatever its handlers did.
C19_FailureIsIsolated ==
    last_op.op = "trigger" =>
        /\ last_op.result.ok
        /\ (\E i \in 1..Len(last_op.calls) : ~last_op.calls[i].result.ok) =>
                CallsEachOnce(last_op.calls, Subscribed(plugins, last_op.trigger),
                              last_op.clip.content)

\* the first handler invoked failed to start, a later one exited with a
\* status other than zero, and a third ran to its end
C19_Witness ==
    /\ last_op.op = "trigger"
    /\ Len(last_op.calls) = 3
    /\ last_op.calls[1].result = Err("io::Error", "spawn")
    /\ last_op.calls[2].result.ok = FALSE
    /\ last_op.calls[2].result.msg = "Plugin execution failed"
    /\ last_op.calls[3].result.ok

\* C20 as claimed: invoke_by_name fails with NotFound when the name is not
\* registered and with Disabled when the handler is disabled, starting no
\* process in either case; with ExecutionFailed when the process cannot be
\* spawned or exits with a status other than zero; and returns the captured
\* standard output only when the process exits with status zero.
C20_ThreeFailureOutcomes ==
    last_op.op = "execute" =>
        LET r == last_op.result
            registered == last_op.name \in DOMAIN plugins
            enabled == registered /\ plugins[last_op.name].enabled
        IN  /\ ~registered => (~r.ok /\ r.msg = "Plugin not found" /\ ~last_op.spawned)
            /\ (registered /\ ~enabled) =>
                    (~r.ok /\ r.msg = "Plugin is disabled" /\ ~last_op.spawned)
            /\ (enabled /\ last_op.outcome \in {"spawn_failed", "exit_nonzero"}) =>
                    (~r.ok /\ r.msg = "Plugin execution failed")
            /\ r.ok => ( /\ enabled
                         /\ last_op.outcome = "exit_zero"
                         /\ r.val = Stdout(last_op.name, last_op.input) )

----------------------------------------------------------------------------
(* Claims about concurrent access *)

\* between the insert and the trim of a tick, with the store guard held, a
\* step that changes table clips is the trim of the Monitor Loop itself
C21_HeldStoreStep ==
    ("db" \in guards /\ pc = "trim" /\ clips' # clips) => pc' # pc

\* C21 as claimed: while the Monitor Loop holds the store for its insert and
\* its trim, no write of a foreground caller falls between its store steps.
C21_OneStoreOperationAtATime ==
    [][C21_HeldStoreStep]_vars

\* C22 as claimed: what a concurrent reader sees is the store before or after
\* a whole write operation, never the store between two steps of a tag
\* mutation or of a restore.
C22_ReaderSeesWholeWrites ==
    last_op.op = "read" => last_op.seen \in last_op.whole

----------------------------------------------------------------------------
(* Claims about export and import *)

\* the number of rows of s that carry content c and kind k
CountOf(s, c, k) ==
    Cardinality({i \in 1..Len(s) : s[i].content = c /\ s[i].clip_type = k})

\* two stores with the same multiset of (content, kind) pairs
SamePairs(s, t) ==
    \A r \in Range(s) \cup Range(t) :
        CountOf(s, r.content, r.clip_type) = CountOf(t, r.content, r.clip_type)

\* C23: an export to json followed by an import of that file into an empty
\* store gives a store with the same multiset of (content, kind) pairs as the
\* exported store, file entries included.
C23_ExportImportRoundTrip ==
    (last_op.op = "import" /\ last_op.ok /\ last_op.into = <<>>)
        => SamePairs(clips, file[1].exported)

\* a store with a file entry and a text with a quote came back whole
C23_Witness ==
    /\ last_op.op = "import"
    /\ last_op.ok
    /\ last_op.into = <<>>
    /\ Len(file[1].exported) = MaxExport
    /\ \E i \in 1..Len(clips) : clips[i].clip_type = "file"
    /\ \E i \in 1..Len(clips) : clips[i].content = <<"\"">>

----------------------------------------------------------------------------
(* Claims about the Clipboard Accessor *)

\* a change check made while the OS clipboard still holds the text of a
\* successful write_text reports false
NoChangeAfterWrite ==
    (last_op.op = "has_changed" /\ last_op.since # None) => ~last_op.result

\* a failed write_text leaves the last-known value as it was
FailedWriteKeepsLast ==
    (last_op.op = "set_text" /\ ~last_op.ok) => accessor = last_op.before

\* C24 as claimed: after a successful write_text(x) the change check reports
\* false while the OS clipboard holds x, a failed write_text leaves the
\* last-known value unchanged, and nothing but the write-through modifies the
\* last-known value.
C24_OnlyWriteThrough ==
    /\ NoChangeAfterWrite
    /\ FailedWriteKeepsLast
    /\ accessor # last_op.before => (last_op.op = "set_text" /\ last_op.ok)

\* C24 amended: after a successful write_text(x) the change check reports
\* false while the OS clipboard holds x, a failed write_text leaves the
\* last-known value unchanged, and the last-known value is modified only by a
\* successful write_text, which sets it to the text written, and by a change
\* check that read a text different from it, which sets it to the text read.
C24_WriteThroughAndChangeChecks ==
    /\ NoChangeAfterWrite
    /\ FailedWriteKeepsLast
    /\ accessor # last_op.before =>
        \/ /\ last_op.op = "set_text"
           /\ last_op.ok
           /\ accessor = Some(last_op.text)
        \/ /\ last_op.op \in {"has_changed", "monitor_changes"}
           /\ last_op.result
           /\ accessor = last_op.read.val
           /\ accessor = os_clipboard

\* a change check that answered false after a successful write_text, the OS
\* clipboard still holding the text written
C24_Witness ==
    /\ last_op.op = "has_changed"
    /\ last_op.since # None
    /\ last_op.since = os_clipboard
    /\ last_op.read.ok
    /\ ~last_op.result
    /\ accessor = last_op.since

----------------------------------------------------------------------------
(* Claims about the configuration *)

\* C25 as claimed: the Monitor Loop trims to the max_clips of the
\* configuration loaded at startup: after an insertion of the loop and its
\* trim the store holds at most config.max_clips entries.
C25_TrimsToConfiguredBound ==
    last_op.op = "monitor_trim" => Len(clips) <= config.max_clips

----------------------------------------------------------------------------
(* Claims about the bound after a failed trim *)

\* tick i inserted an entry and its trim failed
TrimFailedIn(i) == ticks[i].add = "ok" /\ ticks[i].trim = "fail"

\* the last tick is complete and without error, and it is the first such tick
\* after a tick whose trim failed
FirstGoodTickAfterFailedTrim ==
    /\ pc = "sleep"
    /\ NTicks >= 2
    /\ ~FailedTick(NTicks)
    /\ \E i \in 1..(NTicks - 1) :
        /\ TrimFailedIn(i)
        /\ \A k \in (i + 1)..(NTicks - 1) : FailedTick(k)

\* C26 as claimed: when a failure between insert and trim has left the store
\* above max_clips, the next tick that completes without error restores the
\* bound, whether or not the clipboard content has changed.
C26_NextGoodTickRestores ==
    FirstGoodTickAfterFailedTrim => Len(clips) <= MaxClips

\* C26 amended: when a failure between insert and trim has left the store
\* above max_clips, the next tick that completes without error restores the
\* bound if it found the clipboard content changed (it inserted and trimmed);
\* if it found no change it made no store operation and the store is still
\* above the bound.
C26_NextChangedTickRestores ==
    FirstGoodTickAfterFailedTrim =>
        IF ticks[NTicks].changed
        THEN /\ ticks[NTicks].add = "ok"
             /\ ticks[NTicks].trim = "ok"
             /\ Len(clips) <= MaxClips
        ELSE /\ ticks[NTicks].attempts = 0
             /\ ticks[NTicks].trim = "none"
             /\ Len(clips) > MaxClips

\* a changed tick has brought the store back to max_clips after a failed trim
C26_Witness ==
    /\ FirstGoodTickAfterFailedTrim
    /\ ticks[NTicks].changed
    /\ last_op.op = "monitor_trim"
    /\ last_op.before > MaxClips + 1
    /\ Len(clips) = MaxClips

----------------------------------------------------------------------------
(* Claims about a tick without a change *)

\* the tick that starts in this step reads nothing, fails to read, or reads
\* the text last_seen holds
QuietRead ==
    /\ NTicks' = NTicks + 1
    /\ \/ ~ticks'[NTicks + 1].read.ok
       \/ ticks'[NTicks + 1].read.val = None
       \/ ticks'[NTicks + 1].read.val = last_content

C27_QuietReadStep ==
    QuietRead => /\ clips' = clips
                 /\ clip_tags' = clip_tags
                 /\ last_content' = last_content
                 /\ guards' = guards
                 /\ "db" \notin guards'
                 /\ pc' = "sleep"

\* C27: a tick whose clipboard read is absent, fails, or equals last_seen
\* makes no store operation (no insert, no trim, no lock of the store) and
\* leaves last_seen unchanged.
C27_QuietTickTouchesNothing ==
    /\ [][C27_QuietReadStep]_vars
    /\ [](\A i \in 1..NTicks :
            (~ReadText(i) \/ ~ticks[i].changed) =>
                /\ ticks[i].attempts = 0
                /\ ticks[i].add = "none"
                /\ ticks[i].trim = "none")

\* after a capture, one tick read the captured text again and another failed
\* to read
C27_Witness ==
    /\ pc = "sleep"
    /\ \E i, j \in 1..NTicks :
        /\ i < j
        /\ ticks[i].add = "ok"
        /\ ReadText(j)
        /\ ReadVal(j) = ReadVal(i)
        /\ ~ticks[j].changed
        /\ last_content = ticks[j].read.val
    /\ \E i \in 1..NTicks : ~ticks[i].read.ok

----------------------------------------------------------------------------
(* Claims about the guards of the Monitor Loop *)

\* C28 as claimed: in the sleep that ends a tick the Monitor Loop holds no
\* guard, neither that of the store nor that of the Clipboard Accessor.
C28_SleepsWithoutGuards ==
    (pc = "sleep" /\ NTicks >= 1) => guards = {}

----------------------------------------------------------------------------
(* Claims about last_seen *)

\* last_seen changes only in the step in which the Monitor Loop finds a text
\* that is not blank and differs from it, and takes that text
C29_OwnTickStep ==
    last_content' # last_content =>
        /\ pc = "sleep"
        /\ pc' = "add"
        /\ NTicks' = NTicks + 1
        /\ last_content' = os_clipboard
        /\ last_content' = content'
        /\ ~IsBlank(last_content'[1])
        /\ accessor' = accessor

\* a write_text, which changes the last-known value of the accessor that made
\* it, leaves last_seen as it is
C29_WriteTextStep ==
    accessor' # accessor => last_content' = last_content

\* C29: last_seen is private to one loop run: it is none when the loop starts,
\* only the loop's own tick changes it, on a change that is not blank, and a
\* write_text of any caller leaves it unchanged.
C29_LastSeenIsPrivate ==
    /\ last_content = None
    /\ [][C29_OwnTickStep]_vars
    /\ [][C29_WriteTextStep]_vars

\* a foreground write_text has set its accessor's last-known value while the
\* loop's last_seen holds the other text the loop captured
C29_Witness ==
    /\ accessor # None
    /\ os_clipboard = accessor
    /\ last_content # None
    /\ last_content # accessor
    /\ fg_count > 0

----------------------------------------------------------------------------
(* Claims about the entries *)

\* what get_clip_by_id, get_recent_clips and get_all_clips give for the
\* entries of table rows that table old held as well is what old held
ReadsAsBefore(old, rows) ==
    /\ \A id \in Ids(old) \cap Ids(rows) :
        GetClipById(rows, id) = GetClipById(old, id)
    /\ \A limit \in 0..Len(rows) :
        \A list \in GetRecentClips(rows, limit) :
            \A i \in 1..Len(list) :
                list[i].id \in Ids(old) =>
                    Some(list[i]) = GetClipById(old, list[i].id)
    /\ \A list \in GetAllClips(rows) :
        \A i \in 1..Len(list) :
            list[i].id \in Ids(old) =>
                Some(list[i]) = GetClipById(old, list[i].id)

\* an entry that exists before and after a step reads the same; the three
\* reads look at table clips alone, so a step that leaves the table as it is
\* leaves them as they are
EntryKept == clips' = clips \/ ReadsAsBefore(clips, clips')

\* an id stands for one entry: a new entry gets an id no entry had before
IdsNeverReused ==
    /\ \A id \in Ids(clips') \ Ids(clips) : id >= next_uuid /\ id < next_uuid'
    /\ \A i, j \in 1..Len(clips') : clips'[i].id = clips'[j].id => i = j

\* C30: an entry is never mutated after creation: content, kind, created_at
\* and file path of an id read the same in every state in which the entry
\* exists, under insert, trim, tag, untag and clear.
C30_EntriesNeverMutated ==
    [][EntryKept /\ IdsNeverReused]_vars

\* a file entry, tagged, has outlived a later insert and a trim that removed
\* another entry, and reads as it was written
C30_Witness ==
    /\ last_op.op = "trim"
    /\ Len(last_op.before) > Len(clips)
    /\ \E id \in Ids(clips) :
        /\ GetClipById(clips, id)[1].clip_type = "file"
        /\ GetClipById(clips, id)[1].file_path = Some(GetClipById(clips, id)[1].content)
        /\ \E i \in 1..Len(last_op.before) : last_op.before[i].id = id
        /\ GetClipTags(clip_tags, tags, id) # {}
        /\ id + 1 < next_uuid

----------------------------------------------------------------------------
(* Claims about the tag records *)

\* no two tag records carry the same name or the same id
TagsUniqueByName ==
    \A t, u \in tags : (t.name = u.name \/ t.id = u.id) => t = u

\* a step keeps every tag record as it is; a record it adds carries a name no
\* record carried and an id no record was given before
TagsKeptStep ==
    /\ tags \subseteq tags'
    /\ \A t \in tags' \ tags :
        /\ \A u \in tags : u.name # t.name
        /\ t.id > tag_seq
        /\ t.id <= tag_seq'

\* a tag command on a name that has a record adds no record and ties the entry
\* to the record there is
TagReusesRecord ==
    (last_op.op = "tag" /\ last_op.ok) =>
        \E t \in tags :
            /\ t.name = last_op.name
            /\ <<last_op.clip_id, t.id>> \in clip_tags
            /\ \A u \in tags : u.name = last_op.name => u = t

\* C31: tag records are unique by name and no store operation (tag, untag,
\* trim, clear, insert) deletes one: a record stays when no entry refers to
\* it, and a later tag with its name uses it again.
C31_TagRecordsPersist ==
    /\ []TagsUniqueByName
    /\ []TagReusesRecord
    /\ [][TagsKeptStep]_vars

\* a clear has removed every entry and every association, and the tag record
\* is still there with nothing referring to it
C31_Witness ==
    /\ last_op.op = "clear"
    /\ Len(last_op.before) > 0
    /\ clips = <<>>
    /\ clip_tags = {}
    /\ tags # {}
    /\ tag_seq = Cardinality(tags)

----------------------------------------------------------------------------
(* Claims about the kind of an entry *)

\* C32 as claimed: every entry's kind is text or file, every file entry
\* carries a source path equal to its content, and no text entry carries a
\* source path, whichever way the entry came into the store.
C32_KindAndSourcePath ==
    \A i \in 1..Len(clips) :
        /\ clips[i].clip_type \in {"text", "file"}
        /\ clips[i].clip_type = "file" => clips[i].file_path = Some(clips[i].content)
        /\ clips[i].clip_type = "text" => clips[i].file_path = None

----------------------------------------------------------------------------
(* Claims about what the Monitor Loop compares a read with *)

\* the tick that starts in this step goes on to insert exactly when it read a
\* text that is not blank and differs from last_seen, whatever the store holds
C33_PollDecides ==
    NTicks' = NTicks + 1 =>
        LET r == ticks'[NTicks + 1].read
        IN  (pc' = "add") <=>
                /\ r.ok
                /\ r.val # None
                /\ ~IsBlank(r.val[1])
                /\ r.val # last_content

\* an insert of the loop that succeeds adds one row with the text read, also
\* when a row of the store holds that text
C33_AddAppends ==
    (pc = "add" /\ pc' = "trim") =>
        /\ Len(clips') = Len(clips) + 1
        /\ SubSeq(clips', 1, Len(clips)) = clips
        /\ clips'[Len(clips')].content = content[1]
        /\ clips'[Len(clips')].id \notin Ids(clips)

\* the first tick of a loop run takes any text that is not blank for a change,
\* and of three ticks in a row that read A, B, A each one does
C33_FreshAndRepeated ==
    /\ (NTicks >= 1 /\ ReadReal(1)) => ticks[1].changed
    /\ \A i \in 1..NTicks :
        ( /\ i + 2 <= NTicks
          /\ ReadReal(i) /\ ReadReal(i + 1) /\ ReadReal(i + 2)
          /\ ReadVal(i) = ReadVal(i + 2)
          /\ ReadVal(i) # ReadVal(i + 1) )
        => ticks[i + 1].changed /\ ticks[i + 2].changed

\* C33: the Monitor Loop compares a read with last_seen alone, never with the
\* store: a text that is not blank and differs from last_seen is inserted, so
\* A, B, A is stored as two entries with content A, and a loop that has just
\* started stores the clipboard's text even when the store holds it already.
C33_ComparesWithLastSeenOnly ==
    /\ []C33_FreshAndRepeated
    /\ [][C33_PollDecides]_vars
    /\ [][C33_AddAppends]_vars

\* a loop started on a store that holds "a" has read a, b, a and inserted each
\* time: three rows of the store's history carry the content "a"
C33_Witness ==
    /\ NTicks = 3
    /\ pc = "trim"
    /\ \A i \in 1..3 : ReadText(i)
    /\ ReadVal(1) = <<"a">>
    /\ ReadVal(2) = <<"b">>
    /\ ReadVal(3) = <<"a">>
    /\ \A i \in 1..3 : ticks[i].add = "ok"
    /\ next_uuid = MaxClips + 4
    /\ clips[Len(clips)].content = <<"a">>
    /\ clips[Len(clips)].id = MaxClips + 3

----------------------------------------------------------------------------
(* Claims about a failed insert of the Monitor Loop *)

\* ticks i < j read the same text that is not blank, and no tick between them
\* read another text that is not blank
NoOtherTextBetween(i, j) ==
    /\ i < j
    /\ ReadReal(i) /\ ReadReal(j)
    /\ ReadVal(i) = ReadVal(j)
    /\ \A k \in (i + 1)..(j - 1) : ReadReal(k) => ReadVal(k) = ReadVal(i)

\* a text whose insert failed is not tried again while no other text that is
\* not blank has been read, and the tick of the failed insert attempts no trim
C34_FailedInsertIsFinal ==
    \A i \in 1..NTicks :
        ticks[i].add = "fail" =>
            /\ ticks[i].trim = "none"
            /\ ticks[i].attempts = 1
            /\ \A j \in 1..NTicks :
                NoOtherTextBetween(i, j) =>
                    /\ ticks[j].attempts = 0
                    /\ ticks[j].add = "none"
                    /\ ~ticks[j].changed

\* last_seen holds the text before the insert is attempted
C34_SeenBeforeInsert ==
    pc = "add" => (last_content = content /\ content # None)

\* the step of a failed insert leaves last_seen and the store as they are and
\* ends the tick
C34_FailedInsertStep ==
    /\ (pc = "add" /\ pc' # pc) => pc' \in {"trim", "sleep"}
    /\ (pc = "add" /\ pc' = "sleep") =>
        /\ last_content' = last_content
        /\ clips' = clips
        /\ ticks'[NTicks].add = "fail"
    /\ (pc = "add" /\ pc' = "trim") =>
        /\ last_content' = last_content
        /\ ticks'[NTicks].add = "ok"

\* C34: the Monitor Loop sets last_seen before it attempts the insert and does
\* not take it back: a text whose insert failed is not tried again while the
\* clipboard holds it, and is stored only after another text that is not blank
\* has been read; a tick whose insert fails attempts no trim.
C34_NoRetryAfterFailedInsert ==
    /\ []C34_FailedInsertIsFinal
    /\ []C34_SeenBeforeInsert
    /\ [][C34_FailedInsertStep]_vars

\* the insert of a text failed, a blank came and went, the text was read
\* again and not tried: the store is empty and last_seen holds the text
C34_Witness ==
    /\ NTicks = 3
    /\ pc = "sleep"
    /\ ticks[1].add = "fail"
    /\ ReadBlank(2)
    /\ NoOtherTextBetween(1, 3)
    /\ clips = <<>>
    /\ last_content = ticks[1].read.val
    /\ os_clipboard = last_content

----------------------------------------------------------------------------
(* Claims about a foreground command beside the Monitor Loop *)

\* the OS clipboard holds a text that is not blank and that the Monitor Loop
\* has not seen last
UnseenText ==
    /\ os_clipboard # None
    /\ ~IsBlank(os_clipboard[1])
    /\ os_clipboard # last_content

\* a step of a foreground command leaves the Monitor Loop's last_seen, its
\* position and the text it holds as they are
C35_ForegroundStep ==
    (fg' # fg \/ fg_count' # fg_count) =>
        UNCHANGED <<last_content, pc, content>>

\* a poll that finds a change took the text of the OS clipboard, which is
\* not the text seen last before
C35_PollStep ==
    (pc = "sleep" /\ pc' = "add") =>
        /\ UnseenText
        /\ content' = os_clipboard
        /\ last_content' = os_clipboard

\* a successful insert of the loop appends an entry with the text it read,
\* whatever the store holds
C35_InsertStep ==
    (pc = "add" /\ pc' = "trim") =>
        /\ Len(clips') = Len(clips) + 1
        /\ clips'[Len(clips')].content = content[1]
        /\ SubSeq(clips', 1, Len(clips)) = clips

\* the loop, about to poll with an unseen text on the OS clipboard, can take
\* it for insertion
C35_UnseenTextIsTaken ==
    (pc = "sleep" /\ NTicks < MaxTicks /\ UnseenText) =>
        ENABLED (Poll /\ pc' = "add" /\ content' = os_clipboard)

\* the loop, holding a text for insertion, can append an entry with it
C35_TakenTextIsInserted ==
    pc = "add" =>
        ENABLED (MonitorAdd /\ pc' = "trim" /\ Len(clips') = Len(clips) + 1)

\* C35: a foreground add or pick beside the running daemon is not
\* coordinated with the Monitor Loop: it leaves last_seen alone, so a text it
\* puts on the OS clipboard that is not blank and differs from last_seen is
\* taken by the next poll that reads it and appended by the insert that
\* follows, beside the entry the store already holds for it.
C35_ForegroundTextStoredAgain ==
    /\ []C35_UnseenTextIsTaken
    /\ []C35_TakenTextIsInserted
    /\ [][C35_ForegroundStep]_vars
    /\ [][C35_PollStep]_vars
    /\ [][C35_InsertStep]_vars

\* one add and one tick: the store holds two entries with the text of the add
C35_Witness ==
    /\ fg_count = 1
    /\ fg = None
    /\ last_op.op # "pick"
    /\ NTicks = 1
    /\ Len(clips) = 2
    /\ next_uuid = 3
    /\ clips[1].content = clips[2].content
    /\ clips[1].content \in FgTexts
    /\ clips[1].id # clips[2].id

\* an entry picked from the store was stored once more by the loop
PickedStoredAgain ==
    /\ fg_count = 1
    /\ last_op.op = "monitor_add"
    /\ Len(clips) = 3
    /\ clips[3].content = clips[1].content
    /\ clips[2].content # clips[1].content

----------------------------------------------------------------------------
(* Claims about the bound beside foreground inserts *)

\* a step that changes the store while the Monitor Loop stays where it is, a
\* step of a foreground command, appends one entry and keeps every entry
C36_ForegroundInsertStep ==
    (pc' = pc /\ clips' # clips) =>
        /\ Len(clips') = Len(clips) + 1
        /\ SubSeq(clips', 1, Len(clips)) = clips

\* a step that removes an entry is the trim of a Monitor Loop tick, a position
\* the loop reaches by a successful insert only, and it restores the bound
C36_OnlyTheLoopTrims ==
    (\E i \in 1..Len(clips) : clips[i] \notin Range(clips')) =>
        /\ pc = "trim" /\ pc' = "sleep"
        /\ Len(clips') <= MaxClips

\* a store above the bound stays above it through every step but that trim
C36_StaysAboveStep ==
    (Len(clips) > MaxClips /\ Len(clips') <= MaxClips) =>
        (pc = "trim" /\ pc' = "sleep")

\* a foreground insert is possible whatever the size of the store is
C36_InsertAtAnySize ==
    (fg_count < MaxBeside /\ Len(clips) <= MaxRows) =>
        ENABLED (WebAddClip /\ Len(clips') = Len(clips) + 1)

\* C36: the foreground inserts (add, file, import, web add) never trim and
\* only the Monitor Loop enforces the bound: the store can be above max_clips
\* by as many entries as foreground commands insert, and it stays above the
\* bound until a Monitor Loop tick inserts and trims successfully.
C36_OnlyMonitorLoopBounds ==
    /\ []C36_InsertAtAnySize
    /\ [][C36_ForegroundInsertStep]_vars
    /\ [][C36_OnlyTheLoopTrims]_vars
    /\ [][C36_StaysAboveStep]_vars

\* foreground commands had put the store two entries or more above the bound
\* before the tick whose insert and trim brought it back
C36_Witness ==
    /\ last_op.op = "monitor_trim"
    /\ last_op.before >= MaxClips + 3
    /\ fg_count = MaxBeside
    /\ pc = "sleep"
    /\ Len(clips) = MaxClips

====
